---------------------------- MODULE Spec2Model ----------------------------
(***************************************************************************)
(* Model of the shopping-list endpoint of recipe-organizer                 *)
(* (src/src/app/api/shopping-list/route.ts): the text cleaner, the JSON    *)
(* parser it feeds, the aisle normalizer and the three-stage generation    *)
(* orchestrator of POST.                                                   *)
(*                                                                         *)
(* A JavaScript string is a sequence of symbols.  A symbol is either one   *)
(* of the characters the cleaner or the parser looks at (braces, brackets, *)
(* quotes, commas, ...) or a word: a run of other characters that none of  *)
(* the regular expressions of the file matches, written as one TLA+        *)
(* string.  A JSON value is a tagged record.                               *)
(***************************************************************************)
EXTENDS Integers, Sequences, FiniteSets, TLC

VARIABLES
    variant,        \* 2: the current route.ts (lines 319-665); 1: the earlier one (lines 1-318)
    pc,             \* position of the POST handler: the await it is suspended at
    body,           \* what request.json() gives: a JSON value, or undefined when it rejects
    recipeName,     \* the recipeName destructured from the body
    attempt,        \* loop variable of the Stage 1 for loop
    calls,          \* the cohere.chat calls issued so far, in order, each with its result
    response,       \* the NextResponse the handler returned
    nIn,            \* argument of the normalizer under test
    nOut,           \* its result
    nPc,            \* position of the normalizer harness
    tIn,            \* argument of tryParseWithCleaning under test
    tClean,         \* the text it hands to JSON.parse
    tParsed,        \* what JSON.parse makes of it: a value, or the SyntaxError
    tAgain,         \* the cleaned text after the cleaning steps are applied to it again
    tPc,            \* position of the cleaner harness
    parked,         \* a second POST in progress: its locals while the other one runs
    pgPc,           \* position of handleSubmit of page.tsx
    pgName,         \* the page's recipeName state
    pgFetches,      \* the fetch calls of the submit, in order
    pgRecipe,       \* what the fetch of /api/recipe settled with
    pgView,         \* the page's loading, error, ingredients, organizedIngredients states
    pgChecked       \* the page's checkedItems state: a set of item keys

vars == <<variant, pc, body, recipeName, attempt, calls, response, nIn, nOut, nPc,
          tIn, tClean, tParsed, tAgain, tPc, parked,
          pgPc, pgName, pgFetches, pgRecipe, pgView, pgChecked>>

orchVars == <<pc, body, recipeName, attempt, calls, response>>
normVars == <<nIn, nOut, nPc>>
cleanVars == <<tIn, tClean, tParsed, tAgain, tPc>>
pageVars == <<pgPc, pgName, pgFetches, pgRecipe, pgView, pgChecked>>

---------------------------------------------------------------------------
(* Bounds *)

MaxItems == 2       \* longest item sequence under one aisle key
MaxKeys == 2        \* most keys of a normalizer input
MaxText == 4        \* longest text enumerated for the cleaner

---------------------------------------------------------------------------
(* JSON values *)

JUndef == [k |-> "undef"]
JNull == [k |-> "null"]
JBool(b) == [k |-> "bool", b |-> b]
JNum(n) == [k |-> "num", n |-> n]
JStr(s) == [k |-> "str", s |-> s]
JArr(a) == [k |-> "arr", a |-> a]
JObj(o) == [k |-> "obj", o |-> o]

\* a string of one word
W(w) == <<w>>

Entry(key, val) == [key |-> key, val |-> val]

DigitSym == <<"0", "1", "2", "3", "4", "5", "6", "7", "8", "9">>

RECURSIVE Digits(_)
Digits(n) == IF n < 10 THEN <<DigitSym[n + 1]>>
             ELSE Digits(n \div 10) \o <<DigitSym[(n % 10) + 1]>>

Truthy(v) ==
    CASE v.k = "undef" -> FALSE
      [] v.k = "null" -> FALSE
      [] v.k = "bool" -> v.b
      [] v.k = "num" -> v.n # 0
      [] v.k = "str" -> v.s # <<>>
      [] OTHER -> TRUE

TypeofObject(v) == v.k \in {"null", "arr", "obj"}

IsArray(v) == v.k = "arr"

ObjectKeys(v) ==
    CASE v.k = "obj" -> [i \in 1..Len(v.o) |-> v.o[i].key]
      [] v.k = "arr" -> [i \in 1..Len(v.a) |-> Digits(i - 1)]
      [] OTHER -> <<>>

HasOwn(v, key) ==
    CASE v.k = "obj" -> \E i \in 1..Len(v.o) : v.o[i].key = key
      [] v.k = "arr" -> \E i \in 1..Len(v.a) : Digits(i - 1) = key
      [] OTHER -> FALSE

GetProp(v, key) ==
    CASE v.k = "obj" /\ HasOwn(v, key) ->
            v.o[CHOOSE i \in 1..Len(v.o) : v.o[i].key = key].val
      [] v.k = "arr" /\ HasOwn(v, key) ->
            v.a[CHOOSE i \in 1..Len(v.a) : Digits(i - 1) = key]
      [] OTHER -> JUndef

SetProp(o, key, val) ==
    IF \E i \in 1..Len(o) : o[i].key = key
    THEN [i \in 1..Len(o) |-> IF o[i].key = key THEN Entry(key, val) ELSE o[i]]
    ELSE Append(o, Entry(key, val))

RECURSIVE ToStr(_)
RECURSIVE JoinFrom(_, _)
JoinFrom(a, i) ==
    IF i > Len(a) THEN <<>>
    ELSE (IF i > 1 THEN <<",">> ELSE <<>>)
         \o (IF a[i].k \in {"null", "undef"} THEN <<>> ELSE ToStr(a[i]))
         \o JoinFrom(a, i + 1)

ToStr(v) ==
    CASE v.k = "str" -> v.s
      [] v.k = "num" -> Digits(v.n)
      [] v.k = "bool" -> IF v.b THEN W("true") ELSE W("false")
      [] v.k = "null" -> W("null")
      [] v.k = "undef" -> W("undefined")
      [] v.k = "arr" -> JoinFrom(v.a, 1)
      [] OTHER -> <<"[", "object Object", "]">>

RECURSIVE FlatFrom(_, _)
FlatFrom(a, i) ==
    IF i > Len(a) THEN <<>>
    ELSE (IF IsArray(a[i]) THEN a[i].a ELSE <<a[i]>>) \o FlatFrom(a, i + 1)

\* flat() leaving the nesting as it is
FlatNone(a) == a

\* flat() giving the elements back to front
FlatReversed(a) ==
    LET f == FlatFrom(a, 1) IN [i \in 1..Len(f) |-> f[Len(f) + 1 - i]]

Flat(a) == FlatFrom(a, 1)

\* a || b
Or(a, b) == IF Truthy(a) THEN a ELSE b

\* String(v), with the two built-in objects the file can reach
JFunctionObject == [k |-> "fn"]
NativeCodeText == <<"function Object() ", "{", " ", "[", "native code", "]", " ", "}">>

String(v) == IF v.k = "fn" THEN NativeCodeText ELSE ToStr(v)

LowerSym(c) ==
    CASE c \in {"Produce", "PRODUCE"} -> "produce"
      [] c = "Dairy" -> "dairy"
      [] c = "Meat & Seafood" -> "meat & seafood"
      [] c = "Meat_And_Seafood" -> "meat_and_seafood"
      [] c = "Pantry" -> "pantry"
      [] c = "Pantry/Dry Goods" -> "pantry/dry goods"
      [] c = "Frozen Foods" -> "frozen foods"
      [] c = "Bakery" -> "bakery"
      [] c = "Canned Goods" -> "canned goods"
      [] c = "Condiments & Sauces" -> "condiments & sauces"
      [] c = "Spices & Seasonings" -> "spices & seasonings"
      [] c = "Beverages" -> "beverages"
      [] c = "Snacks" -> "snacks"
      [] c = "Note" -> "note"
      [] c = "Constructor" -> "constructor"
      [] OTHER -> c

\* the key looked up as it is written
toLowerCaseNone(s) == s

toLowerCase(s) == [i \in 1..Len(s) |-> LowerSym(s[i])]

---------------------------------------------------------------------------
(* The shopping list *)

UnknownItem == W("Unknown item")

Item(ingredient, quantity) ==
    JObj(<<Entry(W("ingredient"), ingredient), Entry(W("quantity"), quantity)>>)

CanonicalAisles ==
    <<W("Produce"), W("Dairy"), W("Meat & Seafood"), W("Pantry/Dry Goods"),
      W("Frozen Foods"), W("Bakery"), W("Canned Goods"),
      W("Condiments & Sauces"), W("Spices & Seasonings"), W("Beverages")>>

CanonicalSet == {CanonicalAisles[i] : i \in 1..Len(CanonicalAisles)}

aisleMapping ==
    <<Entry(W("produce"), W("Produce")),
      Entry(W("dairy"), W("Dairy")),
      Entry(W("meat_and_seafood"), W("Meat & Seafood")),
      Entry(W("meat & seafood"), W("Meat & Seafood")),
      Entry(W("pantry"), W("Pantry/Dry Goods")),
      Entry(W("pantry/dry goods"), W("Pantry/Dry Goods")),
      Entry(W("frozen"), W("Frozen Foods")),
      Entry(W("frozen foods"), W("Frozen Foods")),
      Entry(W("bakery"), W("Bakery")),
      Entry(W("canned"), W("Canned Goods")),
      Entry(W("canned goods"), W("Canned Goods")),
      Entry(W("condiments"), W("Condiments & Sauces")),
      Entry(W("condiments & sauces"), W("Condiments & Sauces")),
      Entry(W("spices"), W("Spices & Seasonings")),
      Entry(W("spices & seasonings"), W("Spices & Seasonings")),
      Entry(W("beverages"), W("Beverages"))>>

InTable(key) == \E i \in 1..Len(aisleMapping) : aisleMapping[i].key = key

\* aisleMapping[key]: an own entry of the table, else what the object
\* literal inherits from Object.prototype under that name, else undefined
aisleMappingGet(key) ==
    CASE InTable(key) ->
            JStr(aisleMapping[CHOOSE i \in 1..Len(aisleMapping) :
                                  aisleMapping[i].key = key].val)
      [] key = W("constructor") -> JFunctionObject
      [] key = W("__proto__") -> JObj(<<>>)
      [] OTHER -> JUndef

\* createFallbackShoppingList of the current route.ts
createFallbackShoppingList(name) ==
    JObj(<<
      Entry(W("Pantry/Dry Goods"), JArr(<<
          Item(JStr(W("basic ingredients")), JStr(W("as needed"))),
          Item(JStr(<<"Check recipe for ", "\"">> \o String(name) \o <<"\"">>),
               JStr(W("as needed")))>>)),
      Entry(W("Produce"), JArr(<<
          Item(JStr(W("fresh ingredients")), JStr(W("as needed")))>>)),
      Entry(W("Dairy"), JArr(<<>>)),
      Entry(W("Meat & Seafood"), JArr(<<>>)),
      Entry(W("Frozen Foods"), JArr(<<>>)),
      Entry(W("Bakery"), JArr(<<>>)),
      Entry(W("Canned Goods"), JArr(<<>>)),
      Entry(W("Condiments & Sauces"), JArr(<<>>)),
      Entry(W("Spices & Seasonings"), JArr(<<>>)),
      Entry(W("Beverages"), JArr(<<>>))>>)

\* createFallbackShoppingList of the earlier route.ts
createFallbackShoppingListEarlier(name) ==
    JObj(<<
      Entry(W("Pantry/Dry Goods"), JArr(<<
          Item(JStr(W("basic ingredients")), JStr(W("as needed")))>>)),
      Entry(W("Produce"), JArr(<<
          Item(JStr(W("fresh ingredients")), JStr(W("as needed")))>>)),
      Entry(W("Note"),
          JStr(<<"Please check the original recipe for ", "\"">> \o String(name)
               \o <<"\"", " for exact ingredients and quantities.">>))>>)

\* Object.values(aisleMapping).forEach(aisle => normalized[aisle] = [])
RECURSIVE SeedFrom(_, _)
SeedFrom(i, normalized) ==
    IF i > Len(aisleMapping) THEN normalized
    ELSE SeedFrom(i + 1, SetProp(normalized, aisleMapping[i].val, JArr(<<>>)))

\* the callback without the String() around the ingredient
normalizeItemUncoerced(item) ==
    IF item.k = "str" THEN Item(item, JStr(W("1")))
    ELSE IF TypeofObject(item) /\ item.k # "null"
    THEN Item(Or(GetProp(item, W("ingredient")), JStr(UnknownItem)),
              JStr(String(Or(GetProp(item, W("quantity")), JStr(W("1"))))))
    ELSE Item(JStr(UnknownItem), JStr(W("1")))

\* the callback with ?? in the place of ||: only a missing field takes the default
normalizeItemNullish(item) ==
    IF item.k = "str" THEN Item(item, JStr(W("1")))
    ELSE IF TypeofObject(item) /\ item.k # "null"
    THEN Item(JStr(String(IF GetProp(item, W("ingredient")).k \in {"undef", "null"}
                          THEN JStr(UnknownItem) ELSE GetProp(item, W("ingredient")))),
              JStr(String(IF GetProp(item, W("quantity")).k \in {"undef", "null"}
                          THEN JStr(W("1")) ELSE GetProp(item, W("quantity")))))
    ELSE Item(JStr(UnknownItem), JStr(W("1")))

\* the callback of itemsArray.map in the current route.ts
normalizeItem(item) ==
    IF item.k = "str" THEN Item(item, JStr(W("1")))
    ELSE IF TypeofObject(item) /\ item.k # "null"
    THEN Item(JStr(String(Or(GetProp(item, W("ingredient")), JStr(UnknownItem)))),
              JStr(String(Or(GetProp(item, W("quantity")), JStr(W("1"))))))
    ELSE Item(JStr(UnknownItem), JStr(W("1")))

\* the filter with the sentinel misspelt
keepItemMisspelt(item) == GetProp(item, W("ingredient")) # JStr(W("Unknown"))

\* the callback of .filter
keepItem(item) == GetProp(item, W("ingredient")) # JStr(UnknownItem)

\* the body of the forEach with a value that is no array taken as a one-item array
normalizeKeyWrapping(data, key, normalized) ==
    LET normalizedKey == Or(aisleMappingGet(toLowerCase(key)), JStr(key))
        rawItems == GetProp(data, key)
        itemsArray ==
            IF IsArray(rawItems)
            THEN (IF Len(rawItems.a) > 0 /\ IsArray(rawItems.a[1])
                  THEN Flat(rawItems.a) ELSE rawItems.a)
            ELSE <<rawItems>>
        mapped == [i \in 1..Len(itemsArray) |-> normalizeItem(itemsArray[i])]
        normalizedItems == SelectSeq(mapped, keepItem)
    IN SetProp(normalized, String(normalizedKey), JArr(normalizedItems))

\* the body of Object.keys(data).forEach in the current route.ts
normalizeKey(data, key, normalized) ==
    LET normalizedKey == Or(aisleMappingGet(toLowerCase(key)), JStr(key))
        rawItems == GetProp(data, key)
        itemsArray ==
            IF IsArray(rawItems)
            THEN (IF Len(rawItems.a) > 0 /\ IsArray(rawItems.a[1])
                  THEN Flat(rawItems.a) ELSE rawItems.a)
            ELSE <<>>
        mapped == [i \in 1..Len(itemsArray) |-> normalizeItem(itemsArray[i])]
        normalizedItems == SelectSeq(mapped, keepItem)
    IN SetProp(normalized, String(normalizedKey), JArr(normalizedItems))

RECURSIVE normalizeFrom(_, _, _, _)
normalizeFrom(data, keys, i, normalized) ==
    IF i > Len(keys) THEN normalized
    ELSE normalizeFrom(data, keys, i + 1, normalizeKey(data, keys[i], normalized))

\* normalizeShoppingList of the current route.ts
normalizeShoppingList(rawData) ==
    IF ~Truthy(rawData) \/ ~TypeofObject(rawData)
    THEN createFallbackShoppingList(JStr(W("unknown")))
    ELSE JObj(normalizeFrom(rawData, ObjectKeys(rawData), 1, SeedFrom(1, <<>>)))

---------------------------------------------------------------------------
(* Texts: the cleaner of tryParseWithCleaning *)

Whitespace == {" ", "\n", "\t"}

RECURSIVE SkipWs(_, _)
\* the first position from i on that holds no whitespace
SkipWs(s, i) == IF i <= Len(s) /\ s[i] \in Whitespace THEN SkipWs(s, i + 1) ELSE i

RECURSIVE SkipWsBack(_, _)
\* the last position up to i that holds no whitespace
SkipWsBack(s, i) == IF i >= 1 /\ s[i] \in Whitespace THEN SkipWsBack(s, i - 1) ELSE i

Slice(s, from, to) == IF from > to THEN <<>> ELSE SubSeq(s, from, to)

\* String.prototype.trim
trim(s) == Slice(s, SkipWs(s, 1), SkipWsBack(s, Len(s)))

\* the symbol of one backtick character
Backtick == "BACKTICK"

\* three backticks in a row: a code fence
IsFenceAt(s, i) ==
    i + 2 <= Len(s) /\ s[i] = Backtick /\ s[i + 1] = Backtick /\ s[i + 2] = Backtick

RECURSIVE RemoveJsonFences(_, _)
\* the language tag is a word of its own: json in any case
\* .replace(/(fence)json\s*/gi, '')
RemoveJsonFences(s, i) ==
    IF i > Len(s) THEN <<>>
    ELSE IF IsFenceAt(s, i) /\ i + 3 <= Len(s) /\ LowerSym(s[i + 3]) = "json"
    THEN RemoveJsonFences(s, SkipWs(s, i + 4))
    ELSE <<s[i]>> \o RemoveJsonFences(s, i + 1)

RECURSIVE RemoveFences(_, _)
\* .replace(/(fence)\s*/g, '')
RemoveFences(s, i) ==
    IF i > Len(s) THEN <<>>
    ELSE IF IsFenceAt(s, i) THEN RemoveFences(s, SkipWs(s, i + 3))
    ELSE <<s[i]>> \o RemoveFences(s, i + 1)

Positions(s, c) == {i \in 1..Len(s) : s[i] = c}

Max(S) == CHOOSE x \in S : \A y \in S : y <= x
Min(S) == CHOOSE x \in S : \A y \in S : x <= y

\* lines.slice(0, jsonEndIndex + 1).join('\n'), jsonEndIndex the last line
\* that includes '}': the text up to the first line break after the last '}'
CutAfterLastBraceLine(s) ==
    IF Positions(s, "}") = {} THEN s
    ELSE LET last == Max(Positions(s, "}"))
             breaks == {i \in Positions(s, "\n") : i > last}
         IN IF breaks = {} THEN s ELSE Slice(s, 1, Min(breaks) - 1)

\* cleaned.includes('":')
IncludesQuoteColon(s) == \E i \in 1..(Len(s) - 1) : s[i] = "\"" /\ s[i + 1] = ":"

\* .replace(/^\s*\[\s*/, by)
ReplaceLeadingBracket(s, by) ==
    LET i == SkipWs(s, 1)
    IN IF i <= Len(s) /\ s[i] = "[" THEN by \o Slice(s, SkipWs(s, i + 1), Len(s))
       ELSE s

\* .replace(/\s*\]\s*$/, by)
ReplaceTrailingBracket(s, by) ==
    LET i == SkipWsBack(s, Len(s))
    IN IF i >= 1 /\ s[i] = "]" THEN Slice(s, 1, SkipWsBack(s, i - 1)) \o by
       ELSE s

\* the array-as-root repair
FixArrayRoot(s) ==
    IF Len(s) > 0 /\ s[1] = "[" /\ IncludesQuoteColon(s)
    THEN ReplaceTrailingBracket(ReplaceLeadingBracket(s, <<"{">>), <<"}">>)
    ELSE s

\* the cleaner without the extraction of the object
ExtractObjectNone(s) == s

\* cleaned.match(/\{[\s\S]*\}/): from the first '{' to the last '}' after it
ExtractObject(s) ==
    IF Positions(s, "{") = {} THEN s
    ELSE LET first == Min(Positions(s, "{"))
             closes == {i \in Positions(s, "}") : i > first}
         IN IF closes = {} THEN s ELSE Slice(s, first, Max(closes))

RECURSIVE RemoveTrailingCommas(_, _)
\* .replace(/,(\s*[}\]])/g, '$1')
RemoveTrailingCommas(s, i) ==
    IF i > Len(s) THEN <<>>
    ELSE LET j == SkipWs(s, i + 1)
         IN IF s[i] = "," /\ j <= Len(s) /\ s[j] \in {"}", "]"}
            THEN Slice(s, i + 1, j) \o RemoveTrailingCommas(s, j + 1)
            ELSE <<s[i]>> \o RemoveTrailingCommas(s, i + 1)

RECURSIVE FixSingleQuotes(_, _)
\* .replace(/([^\\])'/g, '$1"')
FixSingleQuotes(s, i) ==
    IF i > Len(s) THEN <<>>
    ELSE IF i + 1 <= Len(s) /\ s[i] # "\\" /\ s[i + 1] = "'"
    THEN <<s[i], "\"">> \o FixSingleQuotes(s, i + 2)
    ELSE <<s[i]>> \o FixSingleQuotes(s, i + 1)

RECURSIVE CollapseCommas(_, _)
\* .replace(/,+/g, ',')
CollapseCommas(s, i) ==
    IF i > Len(s) THEN <<>>
    ELSE IF s[i] = "," /\ i > 1 /\ s[i - 1] = "," THEN CollapseCommas(s, i + 1)
    ELSE <<s[i]>> \o CollapseCommas(s, i + 1)

\* tryParseWithCleaning up to the extraction of the object: the text that
\* reaches cleaned.match
CleanUpToExtract(text) ==
    LET c1 == trim(text)
        c2 == RemoveFences(RemoveJsonFences(c1, 1), 1)
        c3 == CutAfterLastBraceLine(c2)
        c4 == FixArrayRoot(c3)
        c5 == ReplaceLeadingBracket(c4, <<>>)
    IN c5

\* tryParseWithCleaning up to, and without, the final JSON.parse
Clean(text) ==
    LET c5 == CleanUpToExtract(text)
        c6 == ExtractObject(c5)
        c7 == CollapseCommas(FixSingleQuotes(RemoveTrailingCommas(c6, 1), 1), 1)
    IN c7

---------------------------------------------------------------------------
(* JSON.parse *)

Fail == [ok |-> FALSE, val |-> JUndef, next |-> 0]
Parsed(v, next) == [ok |-> TRUE, val |-> v, next |-> next]

\* the number words of the texts
IsNumeral(w) == w \in {"0", "1", "2", "5", "12"}
NumeralValue(w) ==
    CASE w = "0" -> 0 [] w = "1" -> 1 [] w = "2" -> 2 [] w = "5" -> 5 [] OTHER -> 12

RECURSIVE ParseStringFrom(_, _, _)
\* the characters of a string literal, i the position after the opening quote;
\* of the escapes, the texts use only a backslash before a quote, a
\* backslash, a slash or the word n
ParseStringFrom(s, i, acc) ==
    IF i > Len(s) THEN Fail
    ELSE IF s[i] = "\"" THEN Parsed(acc, i + 1)
    ELSE IF s[i] = "\\"
    THEN (IF i + 1 <= Len(s) /\ s[i + 1] \in {"\"", "\\", "/"}
          THEN ParseStringFrom(s, i + 2, Append(acc, s[i + 1]))
          ELSE IF i + 1 <= Len(s) /\ s[i + 1] = "n"
          THEN ParseStringFrom(s, i + 2, Append(acc, "\n"))
          ELSE Fail)
    ELSE IF s[i] \in {"\n", "\t"} THEN Fail
    ELSE ParseStringFrom(s, i + 1, Append(acc, s[i]))

RECURSIVE ParseValue(_, _)
RECURSIVE ParseElements(_, _, _)
RECURSIVE ParseMembers(_, _, _)

ParseValue(s, i0) ==
    LET i == SkipWs(s, i0)
    IN IF i > Len(s) THEN Fail
       ELSE IF s[i] = "\""
       THEN LET r == ParseStringFrom(s, i + 1, <<>>)
            IN IF r.ok THEN Parsed(JStr(r.val), r.next) ELSE Fail
       ELSE IF s[i] = "["
       THEN LET j == SkipWs(s, i + 1)
            IN IF j <= Len(s) /\ s[j] = "]" THEN Parsed(JArr(<<>>), j + 1)
               ELSE ParseElements(s, i + 1, <<>>)
       ELSE IF s[i] = "{"
       THEN LET j == SkipWs(s, i + 1)
            IN IF j <= Len(s) /\ s[j] = "}" THEN Parsed(JObj(<<>>), j + 1)
               ELSE ParseMembers(s, i + 1, <<>>)
       ELSE IF s[i] = "true" THEN Parsed(JBool(TRUE), i + 1)
       ELSE IF s[i] = "false" THEN Parsed(JBool(FALSE), i + 1)
       ELSE IF s[i] = "null" THEN Parsed(JNull, i + 1)
       ELSE IF IsNumeral(s[i]) THEN Parsed(JNum(NumeralValue(s[i])), i + 1)
       ELSE Fail

ParseElements(s, i, acc) ==
    LET r == ParseValue(s, i)
        j == SkipWs(s, r.next)
    IN IF ~r.ok \/ j > Len(s) THEN Fail
       ELSE IF s[j] = "," THEN ParseElements(s, j + 1, Append(acc, r.val))
       ELSE IF s[j] = "]" THEN Parsed(JArr(Append(acc, r.val)), j + 1)
       ELSE Fail

ParseMembers(s, i, acc) ==
    LET j == SkipWs(s, i)
        key == IF j <= Len(s) /\ s[j] = "\"" THEN ParseStringFrom(s, j + 1, <<>>) ELSE Fail
        c == SkipWs(s, key.next)
        r == IF key.ok /\ c <= Len(s) /\ s[c] = ":" THEN ParseValue(s, c + 1) ELSE Fail
        m == SkipWs(s, r.next)
    IN IF ~r.ok \/ m > Len(s) THEN Fail
       ELSE IF s[m] = "," THEN ParseMembers(s, m + 1, SetProp(acc, key.val, r.val))
       ELSE IF s[m] = "}" THEN Parsed(JObj(SetProp(acc, key.val, r.val)), m + 1)
       ELSE Fail

\* JSON.parse(text): ok is FALSE where it throws a SyntaxError
JSONparse(text) ==
    LET r == ParseValue(text, 1)
    IN IF r.ok /\ SkipWs(text, r.next) > Len(text) THEN r ELSE Fail

tryParseWithCleaning(text) == JSONparse(Clean(text))

---------------------------------------------------------------------------
(* The earlier route.ts: its normalizer *)

Returned(v) == [ok |-> TRUE, val |-> v]
Thrown == [ok |-> FALSE, val |-> JUndef]

\* the callback of items.map in the earlier route.ts; item.ingredient of
\* null is a TypeError
normalizeItemEarlier(item) ==
    IF item.k = "str" THEN Item(item, JStr(W("1")))
    ELSE Item(Or(GetProp(item, W("ingredient")), JStr(UnknownItem)),
              JStr(String(Or(GetProp(item, W("quantity")), JStr(W("1"))))))

ItemsOf(rawItems) ==
    IF IsArray(rawItems)
    THEN (IF Len(rawItems.a) > 0 /\ IsArray(rawItems.a[1])
          THEN Flat(rawItems.a) ELSE rawItems.a)
    ELSE <<>>

normalizeKeyEarlier(data, key, normalized) ==
    LET normalizedKey == Or(aisleMappingGet(toLowerCase(key)), JStr(key))
        items == ItemsOf(GetProp(data, key))
        mapped == [i \in 1..Len(items) |-> normalizeItemEarlier(items[i])]
    IN SetProp(normalized, String(normalizedKey), JArr(SelectSeq(mapped, keepItem)))

RECURSIVE normalizeFromEarlier(_, _, _, _)
normalizeFromEarlier(data, keys, i, normalized) ==
    IF i > Len(keys) THEN normalized
    ELSE normalizeFromEarlier(data, keys, i + 1,
                              normalizeKeyEarlier(data, keys[i], normalized))

\* normalizeShoppingList of the earlier route.ts
normalizeShoppingListEarlier(rawData) ==
    IF \E i \in 1..Len(ObjectKeys(rawData)) :
          \E j \in 1..Len(ItemsOf(GetProp(rawData, ObjectKeys(rawData)[i]))) :
             ItemsOf(GetProp(rawData, ObjectKeys(rawData)[i]))[j].k = "null"
    THEN Thrown
    ELSE Returned(JObj(normalizeFromEarlier(rawData, ObjectKeys(rawData), 1,
                                            SeedFrom(1, <<>>))))

---------------------------------------------------------------------------
(* Inputs of the normalizer *)

SeqsUpTo(S, n) == UNION {[1..m -> S] : m \in 0..n}

Flour == Item(JStr(W("flour")), JStr(W("2 cups")))

NormItems ==
    { JStr(W("eggs")), JStr(UnknownItem), JStr(<<>>), JNull, JNum(5),
      Flour,
      JObj(<<Entry(W("quantity"), JStr(W("1 cup")))>>),
      JObj(<<Entry(W("ingredient"), JArr(<<JStr(UnknownItem)>>))>>),
      JObj(<<Entry(W("ingredient"), JNum(0)), Entry(W("quantity"), JNum(12))>>),
      JArr(<<JStr(W("milk")), JNull>>),
      JStr(<<" ", "eggs">>), JBool(TRUE), JArr(<<Flour>>),
      JObj(<<Entry(W("ingredient"), JStr(W("salt"))), Entry(W("quantity"), JArr(<<>>))>>) }

NormKeys ==
    { W("Produce"), W("produce"), W("PRODUCE"), W("meat_and_seafood"),
      W("Meat & Seafood"), W("Meat_And_Seafood"), W("Snacks"), W("constructor") }

NormValues ==
    {JArr(a) : a \in SeqsUpTo(NormItems, MaxItems)}
      \cup {JStr(W("salt")), JNum(5), JNull, Flour}

SmallValues ==
    { JArr(<<>>), JArr(<<JStr(W("eggs"))>>), JArr(<<JNull>>),
      JArr(<<JArr(<<Flour>>)>>), JStr(W("salt")) }

Injective(f) == \A i, j \in DOMAIN f : f[i] = f[j] => i = j

RECURSIVE EntrySeqs(_, _)
EntrySeqs(m, Vals) ==
    IF m = 0 THEN {<<>>}
    ELSE {Append(o, Entry(key, v)) : o \in EntrySeqs(m - 1, Vals), key \in NormKeys, v \in Vals}

\* the objects of m entries with distinct keys
ObjectsOf(m, Vals) ==
    {JObj(o) : o \in {p \in EntrySeqs(m, Vals) : Injective([i \in 1..m |-> p[i].key])}}

RECURSIVE ObjectsFrom(_, _)
\* the objects of m to MaxKeys entries
ObjectsFrom(m, Vals) ==
    IF m > MaxKeys THEN {} ELSE ObjectsOf(m, Vals) \cup ObjectsFrom(m + 1, Vals)

NormInputs ==
    {JNull, JBool(FALSE), JBool(TRUE), JNum(0), JNum(5), JStr(<<>>), JStr(W("eggs")), JObj(<<>>)}
      \cup {JArr(a) : a \in SeqsUpTo(NormValues, 1)}
      \cup ObjectsOf(1, NormValues)
      \cup ObjectsFrom(2, SmallValues)

---------------------------------------------------------------------------
(* The Model Client: cohere.chat *)

Pending == [st |-> "pending", text |-> <<>>]
Rejected == [st |-> "rejected", text |-> <<>>]
Text(t) == [st |-> "text", text |-> t]

\* a quoted word
Q(w) == <<"\"", w, "\"">>

TextGarbage == <<"Sorry", ",", " ", "I cannot help with that">>

TextFenced ==
    <<Backtick, Backtick, Backtick, "json", "\n", "{">>
      \o Q("Pantry/Dry Goods") \o <<":", "[", "{">>
      \o Q("ingredient") \o <<":">> \o Q("flour") \o <<",">>
      \o Q("quantity") \o <<":">> \o Q("2 cups") \o <<"}", "]", ",">>
      \o Q("Dairy") \o <<":", "[", "{">>
      \o Q("ingredient") \o <<":">> \o Q("milk") \o <<",">>
      \o Q("quantity") \o <<":">> \o Q("1 cup") \o <<"}", "]", "}">>
      \o <<"\n", Backtick, Backtick, Backtick>>

TextEmptyObject == <<"{", "}">>

TextObject == <<"{">> \o Q("Produce") \o <<":", "[">> \o Q("eggs") \o <<"]", "}">>

TextArrayRoot ==
    <<"[", " ">> \o Q("Produce") \o <<":", " ", "[", "{">>
      \o Q("ingredient") \o <<":">> \o Q("eggs") \o <<",">>
      \o Q("quantity") \o <<":">> \o Q("2") \o <<"}", "]", " ", "]">>

TextNull == <<"null">>

TextNullItem == <<"{">> \o Q("Produce") \o <<":", "[", "null", "]", "}">>

\* an apostrophe inside a string value
TextApostrophe ==
    <<"{">> \o Q("Produce") \o <<":", "[", "\"", "baker", "'", "s yeast", "\"", "]", "}">>

\* a reply that is valid JSON with a sequence at the root
TextArray == <<"[">> \o Q("eggs") \o <<"]">>

Texts ==
    { TextGarbage, TextFenced, TextEmptyObject, TextObject, TextArrayRoot,
      TextNull, TextNullItem, TextApostrophe, TextArray }

Outcomes == {Rejected} \cup {Text(t) : t \in Texts}

\* the two prompts, by template and the recipe name put into it
Prompt(template, name) == [template |-> template, recipe |-> String(name)]

\* temperatures are in tenths
ChatCall(model, message, maxTokens, temperature, responseFormat) ==
    [model |-> model, message |-> message, maxTokens |-> maxTokens,
     temperature |-> temperature, responseFormat |-> responseFormat,
     result |-> Pending]

FastCall(n, name) ==
    ChatCall("command-light", Prompt("prompt", name), 800,
             IF n = 1 THEN 1 ELSE 3, "none")

\* Stage 2 sending the generation prompt again
CleanupCallSamePrompt(name) ==
    ChatCall("command-light", Prompt("prompt", name), 800, 1, "none")

\* Stage 2 sent to the model of Stage 3
CleanupCallOtherModel(name) ==
    ChatCall("command-r-plus", Prompt("cleanupPrompt", name), 800, 1, "none")

CleanupCall(name) ==
    ChatCall("command-light", Prompt("cleanupPrompt", name), 800, 1, "none")

\* Stage 3 without the response_format
ReliableCallUnstructured(name) ==
    ChatCall("command-r-plus", Prompt("prompt", name), 1000, 1, "none")

ReliableCall(name) ==
    ChatCall("command-r-plus", Prompt("prompt", name), 1000, 1, "json_object")

LastResult == calls[Len(calls)].result

---------------------------------------------------------------------------
(* POST of shopping-list/route.ts *)

NextResponseJson(fields, status) == [status |-> status, body |-> JObj(fields)]

Bodies ==
    { JUndef, JNull, JObj(<<>>),
      JObj(<<Entry(W("recipeName"), JStr(<<>>))>>),
      JObj(<<Entry(W("recipeName"), JNull)>>),
      JObj(<<Entry(W("recipeName"), JStr(W("Omelette")))>>),
      JObj(<<Entry(W("recipeName"), JStr(W("Pancakes")))>>) }

\* Date.now() - start: some number of milliseconds
Elapsed == JNum(0)

\* the two route.ts, the earlier one and the current one
Variants == {1, 2}

\* normalizeShoppingList of one of the two route.ts
normalizeIn(vr, v) ==
    IF vr = 2 THEN Returned(normalizeShoppingList(v))
    ELSE normalizeShoppingListEarlier(v)

normalizeByVariant(v) == normalizeIn(variant, v)

\* createFallbackShoppingList of one of the two route.ts
fallbackIn(vr, name) ==
    IF vr = 2 THEN createFallbackShoppingList(name)
    ELSE createFallbackShoppingListEarlier(name)

fallbackByVariant(name) == fallbackIn(variant, name)

\* the test for valid items passing every list
hasValidItemsAlways(list) == TRUE

hasValidItems(list) ==
    \E i \in 1..Len(list.o) : IsArray(list.o[i].val) /\ Len(list.o[i].val.a) > 0

\* the attempt handing the reply to JSON.parse as it came
CleanedAttemptUncleaned(result) ==
    IF result.st # "text" THEN Thrown
    ELSE LET parsedData == JSONparse(trim(result.text))
         IN IF ~parsedData.ok \/ ~TypeofObject(parsedData.val) \/ parsedData.val.k = "null"
            THEN Thrown
            ELSE LET organizedIngredients == normalizeByVariant(parsedData.val)
                 IN IF organizedIngredients.ok /\ hasValidItems(organizedIngredients.val)
                    THEN organizedIngredients
                    ELSE Thrown

\* the body of the try of a Stage 1 attempt and of Stage 2, from the reply
\* on, in one of the two route.ts: ok with the list to return, or not ok
\* where the code throws
CleanedAttemptIn(vr, result) ==
    IF result.st # "text" THEN Thrown
    ELSE LET parsedData == tryParseWithCleaning(trim(result.text))
         IN IF ~parsedData.ok \/ ~TypeofObject(parsedData.val) \/ parsedData.val.k = "null"
            THEN Thrown
            ELSE LET organizedIngredients == normalizeIn(vr, parsedData.val)
                 IN IF organizedIngredients.ok /\ hasValidItems(organizedIngredients.val)
                    THEN organizedIngredients
                    ELSE Thrown

\* CleanedAttemptIn of every outcome of a call, computed once
CleanedAttempts ==
    [vr \in Variants |-> [result \in Outcomes |-> CleanedAttemptIn(vr, result)]]

\* the body of the try of a Stage 1 attempt and of Stage 2, from the reply on
CleanedAttempt(result) ==
    CleanedAttempts[variant][result]

\* the return of the outer catch
ServerError ==
    NextResponseJson(<<Entry(W("error"), JStr(W("Failed to generate shopping list")))>>, 500)

\* the attempt counted from zero
FastResponseZeroBased(organizedIngredients, n) ==
    NextResponseJson(
      <<Entry(W("organizedIngredients"), organizedIngredients),
        Entry(W("modelUsed"), JStr(<<"command-light (attempt ">> \o Digits(n - 1) \o <<")">>)),
        Entry(W("responseTime"), Elapsed),
        Entry(W("totalAttempts"), JNum(n - 1))>>, 200)

\* the return of a Stage 1 attempt that has valid items
FastResponse(organizedIngredients, n) ==
    NextResponseJson(
      <<Entry(W("organizedIngredients"), organizedIngredients),
        Entry(W("modelUsed"), JStr(<<"command-light (attempt ">> \o Digits(n) \o <<")">>)),
        Entry(W("responseTime"), Elapsed),
        Entry(W("totalAttempts"), JNum(n))>>, 200)

\* the return of Stage 2
CleanupResponse(organizedIngredients) ==
    NextResponseJson(
      <<Entry(W("organizedIngredients"), organizedIngredients),
        Entry(W("modelUsed"), JStr(W("command-light (cleanup)"))),
        Entry(W("responseTime"), Elapsed),
        Entry(W("totalAttempts"), JNum(4))>>, 200)

\* the return of Stage 3
ReliableResponse(organizedIngredients) ==
    NextResponseJson(
      <<Entry(W("organizedIngredients"), organizedIngredients),
        Entry(W("modelUsed"), JStr(W("command-r-plus"))),
        Entry(W("responseTime"), Elapsed),
        Entry(W("warning"), JStr(W(
          "Used slower but more reliable model due to fast model parsing issues.")))>>, 200)

\* the fallback returned without its warning
FallbackResponseNoWarning(organizedIngredients, generatedText, message) ==
    NextResponseJson(
      <<Entry(W("organizedIngredients"), organizedIngredients),
        Entry(W("modelUsed"), JStr(W("fallback"))),
        Entry(W("rawResponse"), JStr(generatedText)),
        Entry(W("parseError"), JStr(message))>>, 200)

\* the return of the catch of Stage 3
FallbackResponse(organizedIngredients, generatedText, message) ==
    NextResponseJson(
      <<Entry(W("organizedIngredients"), organizedIngredients),
        Entry(W("modelUsed"), JStr(W("fallback"))),
        Entry(W("warning"), JStr(W("Both AI models failed. Using basic shopping list."))),
        Entry(W("rawResponse"), JStr(generatedText)),
        Entry(W("parseError"), JStr(message))>>, 200)

InitRequest ==
    /\ pc = "request"
    /\ body \in Bodies
    /\ recipeName = JUndef
    /\ attempt = 0
    /\ calls = <<>>
    /\ response = JUndef

\* request.json() settles; the handler runs up to the first cohere.chat
Receive ==
    /\ pc = "request"
    /\ IF body.k \in {"undef", "null"}
       THEN /\ response' = ServerError
            /\ pc' = "done"
            /\ UNCHANGED <<recipeName, attempt, calls>>
       ELSE /\ recipeName' = GetProp(body, W("recipeName"))
            /\ IF ~Truthy(recipeName')
               THEN /\ response' = NextResponseJson(
                            <<Entry(W("error"), JStr(W("Recipe name is required")))>>, 400)
                    /\ pc' = "done"
                    /\ UNCHANGED <<attempt, calls>>
               ELSE /\ attempt' = 1
                    /\ calls' = Append(calls, FastCall(1, recipeName'))
                    /\ pc' = "fast"
                    /\ UNCHANGED response
    /\ UNCHANGED <<variant, body>>
    /\ UNCHANGED <<normVars, cleanVars, parked, pageVars>>

\* the Model Client answers the call in flight
CohereChat ==
    /\ pc \in {"fast", "cleanup", "reliable"}
    /\ LastResult = Pending
    /\ \E out \in Outcomes :
          calls' = [calls EXCEPT ![Len(calls)].result = out]
    /\ UNCHANGED <<variant, pc, body, recipeName, attempt, response>>
    /\ UNCHANGED <<normVars, cleanVars, parked, pageVars>>

\* a Stage 1 attempt whose await is outside its try: a rejected call
\* reaches the outer catch
FastResumeUncaught ==
    /\ pc = "fast"
    /\ LastResult # Pending
    /\ LET r == CleanedAttempt(LastResult)
       IN IF LastResult.st = "rejected"
          THEN /\ response' = ServerError
               /\ pc' = "done"
               /\ UNCHANGED <<attempt, calls>>
          ELSE IF r.ok
          THEN /\ response' = FastResponse(r.val, attempt)
               /\ pc' = "done"
               /\ UNCHANGED <<attempt, calls>>
          ELSE IF attempt < 3
          THEN /\ attempt' = attempt + 1
               /\ calls' = Append(calls, FastCall(attempt + 1, recipeName))
               /\ UNCHANGED <<pc, response>>
          ELSE /\ attempt' = attempt + 1
               /\ calls' = Append(calls, CleanupCall(recipeName))
               /\ pc' = "cleanup"
               /\ UNCHANGED response
    /\ UNCHANGED <<variant, body, recipeName>>
    /\ UNCHANGED <<normVars, cleanVars, parked, pageVars>>

\* a Stage 1 loop that starts over after its third failed attempt
FastResumeStartingOver ==
    /\ pc = "fast"
    /\ LastResult # Pending
    /\ LET r == CleanedAttempt(LastResult)
       IN IF r.ok
          THEN /\ response' = FastResponse(r.val, attempt)
               /\ pc' = "done"
               /\ UNCHANGED <<attempt, calls>>
          ELSE IF attempt < 3
          THEN /\ attempt' = attempt + 1
               /\ calls' = Append(calls, FastCall(attempt + 1, recipeName))
               /\ UNCHANGED <<pc, response>>
          ELSE /\ attempt' = 1
               /\ calls' = Append(calls, FastCall(1, recipeName))
               /\ UNCHANGED <<pc, response>>
    /\ UNCHANGED <<variant, body, recipeName>>
    /\ UNCHANGED <<normVars, cleanVars, parked, pageVars>>

\* a Stage 1 attempt resumes with the reply
FastResume ==
    /\ pc = "fast"
    /\ LastResult # Pending
    /\ LET r == CleanedAttempt(LastResult)
       IN IF r.ok
          THEN /\ response' = FastResponse(r.val, attempt)
               /\ pc' = "done"
               /\ UNCHANGED <<attempt, calls>>
          ELSE IF attempt < 3
          THEN /\ attempt' = attempt + 1
               /\ calls' = Append(calls, FastCall(attempt + 1, recipeName))
               /\ UNCHANGED <<pc, response>>
          ELSE /\ attempt' = attempt + 1
               /\ calls' = Append(calls, CleanupCall(recipeName))
               /\ pc' = "cleanup"
               /\ UNCHANGED response
    /\ UNCHANGED <<variant, body, recipeName>>
    /\ UNCHANGED <<normVars, cleanVars, parked, pageVars>>

\* Stage 2 resumes with the reply
CleanupResume ==
    /\ pc = "cleanup"
    /\ LastResult # Pending
    /\ LET r == CleanedAttempt(LastResult)
       IN IF r.ok
          THEN /\ response' = CleanupResponse(r.val)
               /\ pc' = "done"
               /\ UNCHANGED calls
          ELSE /\ calls' = Append(calls, ReliableCall(recipeName))
               /\ pc' = "reliable"
               /\ UNCHANGED response
    /\ UNCHANGED <<variant, body, recipeName, attempt>>
    /\ UNCHANGED <<normVars, cleanVars, parked, pageVars>>

\* Stage 3 parsing through the cleaner, as Stages 1 and 2 do
ReliableAttemptCleaned(generatedText) ==
    LET parsedData == tryParseWithCleaning(generatedText)
    IN IF ~parsedData.ok \/ ~TypeofObject(parsedData.val) \/ parsedData.val.k = "null"
       THEN Thrown
       ELSE normalizeByVariant(parsedData.val)

\* what Stage 3 makes of the reply text in one of the two route.ts: the try
\* block of lines 624-642
ReliableAttemptIn(vr, generatedText) ==
    LET parsedData == JSONparse(generatedText)
    IN IF ~parsedData.ok \/ ~TypeofObject(parsedData.val) \/ parsedData.val.k = "null"
       THEN Thrown
       ELSE normalizeIn(vr, parsedData.val)

\* the reply texts as Stage 3 trims them
TrimmedTexts == {trim(t) : t \in Texts}

\* ReliableAttemptIn of every reply text, computed once
ReliableAttempts ==
    [vr \in Variants |-> [t \in TrimmedTexts |-> ReliableAttemptIn(vr, t)]]

\* what Stage 3 makes of the reply text
ReliableAttempt(generatedText) ==
    ReliableAttempts[variant][generatedText]

\* the message of the error caught by the catch of Stage 3
parseErrorMessageOf(generatedText) ==
    IF JSONparse(generatedText).ok THEN W("Response is not a valid object")
    ELSE W("Unexpected token")

\* parseErrorMessageOf of every reply text, computed once
parseErrorMessages == [t \in TrimmedTexts |-> parseErrorMessageOf(t)]

parseErrorMessage(generatedText) ==
    parseErrorMessages[generatedText]

\* Stage 3 resumes with the reply
ReliableResume ==
    /\ pc = "reliable"
    /\ LastResult # Pending
    /\ IF LastResult.st # "text"
       THEN response' = ServerError
       ELSE LET generatedText == trim(LastResult.text)
                r == ReliableAttempt(generatedText)
            IN IF r.ok
               THEN response' = ReliableResponse(r.val)
               ELSE response' = FallbackResponse(fallbackByVariant(recipeName),
                                                 generatedText,
                                                 parseErrorMessage(generatedText))
    /\ pc' = "done"
    /\ UNCHANGED <<variant, body, recipeName, attempt, calls>>
    /\ UNCHANGED <<normVars, cleanVars, parked, pageVars>>

NormIdle == nIn = JUndef /\ nOut = JUndef /\ nPc = "idle"

CleanIdle ==
    /\ tIn = <<>> /\ tClean = <<>> /\ tParsed = Fail /\ tAgain = <<>>
    /\ tPc = "idle"

\* the locals of one POST
Locals(p, b, name, n, cs, r) ==
    [pc |-> p, body |-> b, recipeName |-> name, attempt |-> n, calls |-> cs,
     response |-> r]

NoRequest == Locals("idle", JUndef, JUndef, 0, <<>>, JUndef)

PageView(isLoading, message, list, organized) ==
    [loading |-> isLoading, error |-> message, ingredients |-> list,
     organizedIngredients |-> organized]

\* the useState initial values of page.tsx
PageIdle ==
    /\ pgPc = "idle" /\ pgName = <<>> /\ pgFetches = <<>> /\ pgRecipe = JUndef
    /\ pgView = PageView(FALSE, <<>>, JArr(<<>>), JObj(<<>>))
    /\ pgChecked = {}

\* no second request and no page
Alone == parked = NoRequest /\ PageIdle

Init ==
    /\ variant = 2
    /\ InitRequest
    /\ NormIdle
    /\ CleanIdle
    /\ Alone

Next ==
    \/ Receive
    \/ CohereChat
    \/ FastResume
    \/ CleanupResume
    \/ ReliableResume

Spec == Init /\ [][Next]_vars

\* the request under a runtime that resumes the handler whenever it can run
\* and a Model Client whose every call settles
SpecFair ==
    /\ Init /\ [][Next]_vars
    /\ WF_vars(Receive)
    /\ WF_vars(CohereChat)
    /\ WF_vars(FastResume)
    /\ WF_vars(CleanupResume)
    /\ WF_vars(ReliableResume)

\* the earlier route.ts in place of the current one
InitEarlier ==
    /\ variant = 1
    /\ InitRequest
    /\ NormIdle
    /\ CleanIdle
    /\ Alone

SpecEarlier == InitEarlier /\ [][Next]_vars

---------------------------------------------------------------------------
(* The normalizer on its own *)

Idle ==
    /\ pc = "idle" /\ body = JUndef /\ recipeName = JUndef /\ attempt = 0
    /\ calls = <<>> /\ response = JUndef

InitNorm ==
    /\ variant = 2
    /\ Idle
    /\ CleanIdle
    /\ Alone
    /\ nIn \in NormInputs
    /\ nOut = JUndef
    /\ nPc = "start"

Normalize ==
    /\ nPc = "start"
    /\ nOut' = normalizeShoppingList(nIn)
    /\ nPc' = "done"
    /\ UNCHANGED <<variant, nIn>>
    /\ UNCHANGED <<orchVars, cleanVars, parked, pageVars>>

NextNorm == Normalize

SpecNorm == InitNorm /\ [][NextNorm]_vars

---------------------------------------------------------------------------
(* Two POSTs whose steps interleave *)

\* every binding of POST is a const or let inside the function: between
\* two awaits of one request the other request's handler may run,
\* on locals of its own
TwoBodies ==
    { JObj(<<>>),
      JObj(<<Entry(W("recipeName"), JStr(W("Omelette")))>>),
      JObj(<<Entry(W("recipeName"), JStr(W("Pancakes")))>>) }

TwoOutcomes == {Rejected, Text(TextGarbage), Text(TextObject)}

InitTwo ==
    /\ variant = 2
    /\ InitRequest
    /\ body \in TwoBodies
    /\ parked \in {Locals("request", b, JUndef, 0, <<>>, JUndef) : b \in TwoBodies}
    /\ NormIdle
    /\ CleanIdle
    /\ PageIdle

\* the recipe name held in a binding of the module, which both requests use
SwitchSharingName ==
    /\ pc # "idle" /\ parked.pc # "idle"
    /\ parked' = Locals(pc, body, parked.recipeName, attempt, calls, response)
    /\ pc' = parked.pc
    /\ body' = parked.body
    /\ attempt' = parked.attempt
    /\ calls' = parked.calls
    /\ response' = parked.response
    /\ UNCHANGED <<variant, recipeName>>
    /\ UNCHANGED <<normVars, cleanVars, pageVars>>

\* the event loop turns to the other request
Switch ==
    /\ pc # "idle" /\ parked.pc # "idle"
    /\ parked' = Locals(pc, body, recipeName, attempt, calls, response)
    /\ pc' = parked.pc
    /\ body' = parked.body
    /\ recipeName' = parked.recipeName
    /\ attempt' = parked.attempt
    /\ calls' = parked.calls
    /\ response' = parked.response
    /\ UNCHANGED variant
    /\ UNCHANGED <<normVars, cleanVars, pageVars>>

\* the Model Client answers the call in flight of the request that runs
CohereChatTwo ==
    /\ pc \in {"fast", "cleanup", "reliable"}
    /\ LastResult = Pending
    /\ \E out \in TwoOutcomes :
          calls' = [calls EXCEPT ![Len(calls)].result = out]
    /\ UNCHANGED <<variant, pc, body, recipeName, attempt, response>>
    /\ UNCHANGED <<normVars, cleanVars, parked, pageVars>>

NextTwo ==
    \/ Receive
    \/ CohereChatTwo
    \/ FastResume
    \/ CleanupResume
    \/ ReliableResume
    \/ Switch

SpecTwo == InitTwo /\ [][NextTwo]_vars

---------------------------------------------------------------------------
(* handleSubmit of the two-step page.tsx *)

PageNames == {<<>>, <<" ">>, W("Pancakes"), W("Omelette"), <<" ", "Omelette">>}

\* a fetch that rejects, a body response.json() rejects, and a JSON reply
FetchRejected == [st |-> "rejected", ok |-> FALSE, data |-> JUndef]
NotJson == [st |-> "notjson", ok |-> FALSE, data |-> JUndef]
Reply(isOk, fields) == [st |-> "json", ok |-> isOk, data |-> JObj(fields)]

Milk == Item(JStr(W("milk")), JStr(W("1 cup")))

\* what JSON.parse of the model's reply can give /api/recipe
RecipeIngredients ==
    { JArr(<<Flour>>), JArr(<<Flour, Milk>>), JArr(<<>>), JNull, JNum(5),
      JObj(<<Entry(W("Produce"), JArr(<<Flour>>))>>) }

\* the replies of /api/recipe to a request with a recipe name, and a
\* reply with an error field under an ok status, which the page provides for
RecipeReplies ==
    { FetchRejected, NotJson,
      Reply(FALSE, <<Entry(W("error"), JStr(W("Failed to generate recipe")))>>),
      Reply(FALSE, <<Entry(W("error"), JStr(W("Failed to parse ingredients"))),
                     Entry(W("rawResponse"), JStr(W("Sure!")))>>),
      Reply(FALSE, <<>>),
      Reply(TRUE, <<Entry(W("error"), JStr(W("Failed to parse ingredients")))>>) }
      \cup {Reply(TRUE, <<Entry(W("ingredients"), v)>>) : v \in RecipeIngredients}

OrganizedReply ==
    Reply(TRUE, <<Entry(W("organizedIngredients"),
                        JObj(<<Entry(W("Pantry/Dry Goods"), JArr(<<Flour>>))>>))>>)

\* the replies of /api/organize to a request body
OrganizeReplies(b) ==
    {FetchRejected, NotJson}
      \cup (IF ~Truthy(GetProp(b, W("ingredients"))) \/ ~IsArray(GetProp(b, W("ingredients")))
            THEN {Reply(FALSE, <<Entry(W("error"), JStr(W("Ingredients array is required")))>>)}
            ELSE { OrganizedReply,
                   Reply(TRUE, <<Entry(W("error"), JStr(W("Failed to parse organized ingredients")))>>),
                   Reply(FALSE, <<Entry(W("error"), JStr(W("Failed to organize ingredients")))>>),
                   Reply(FALSE, <<>>) })

\* JSON.stringify of an object literal, read back by request.json():
\* a property whose value is undefined is left out
JSONBody(fields) ==
    JObj(SelectSeq(fields, LAMBDA e : e.val.k \notin {"undef", "fn"}))

Fetch(url, b) == [url |-> url, body |-> b]

\* err.message of what a fetch or response.json() rejects with
RejectionMessage(r) ==
    IF r.st = "rejected" THEN W("Failed to fetch") ELSE W("Unexpected token")

InitPage ==
    /\ variant = 2
    /\ Idle
    /\ NormIdle
    /\ CleanIdle
    /\ parked = NoRequest
    /\ PageIdle

\* onChange of the input, which is disabled while loading
SetRecipeName ==
    /\ pgPc \in {"idle", "done"}
    /\ \E name \in PageNames : pgName' = name
    /\ UNCHANGED <<pgPc, pgFetches, pgRecipe, pgView, pgChecked>>
    /\ UNCHANGED <<variant, orchVars, normVars, cleanVars, parked>>

\* handleSubmit up to the first fetch
Submit ==
    /\ pgPc \in {"idle", "done"}
    /\ IF trim(pgName) = <<>>
       THEN UNCHANGED <<pgPc, pgFetches, pgRecipe, pgView>>
       ELSE /\ pgView' = PageView(TRUE, <<>>, JArr(<<>>), JObj(<<>>))
            /\ pgFetches' = <<Fetch("/api/recipe",
                                    JSONBody(<<Entry(W("recipeName"), JStr(pgName))>>))>>
            /\ pgRecipe' = JUndef
            /\ pgPc' = "recipe"
    /\ UNCHANGED <<pgName, pgChecked>>
    /\ UNCHANGED <<variant, orchVars, normVars, cleanVars, parked>>

\* the fetch of /api/recipe settles; handleSubmit runs up to the second fetch
RecipeSettles ==
    /\ pgPc = "recipe"
    /\ \E r \in RecipeReplies :
          /\ pgRecipe' = r
          /\ IF r.st # "json"
             THEN /\ pgView' = [pgView EXCEPT !.loading = FALSE, !.error = RejectionMessage(r)]
                  /\ pgPc' = "done"
                  /\ UNCHANGED pgFetches
             ELSE IF ~r.ok
             THEN /\ pgView' = [pgView EXCEPT !.loading = FALSE,
                        !.error = String(Or(GetProp(r.data, W("error")),
                                            JStr(W("Failed to get recipe"))))]
                  /\ pgPc' = "done"
                  /\ UNCHANGED pgFetches
             ELSE IF Truthy(GetProp(r.data, W("error")))
             THEN /\ pgView' = [pgView EXCEPT !.loading = FALSE,
                        !.error = <<"Recipe generation error: ">>
                                     \o String(GetProp(r.data, W("error")))]
                  /\ pgPc' = "done"
                  /\ UNCHANGED pgFetches
             ELSE /\ pgView' = [pgView EXCEPT !.ingredients = GetProp(r.data, W("ingredients"))]
                  /\ pgFetches' = Append(pgFetches,
                        Fetch("/api/organize",
                              JSONBody(<<Entry(W("ingredients"),
                                               GetProp(r.data, W("ingredients")))>>)))
                  /\ pgPc' = "organize"
    /\ UNCHANGED <<pgName, pgChecked>>
    /\ UNCHANGED <<variant, orchVars, normVars, cleanVars, parked>>

\* the fetch of /api/organize settles; handleSubmit runs to its end
OrganizeSettles ==
    /\ pgPc = "organize"
    /\ \E r \in OrganizeReplies(pgFetches[2].body) :
          IF r.st # "json"
          THEN pgView' = [pgView EXCEPT !.loading = FALSE, !.error = RejectionMessage(r)]
          ELSE IF ~r.ok
          THEN pgView' = [pgView EXCEPT !.loading = FALSE,
                   !.error = String(Or(GetProp(r.data, W("error")),
                                       JStr(W("Failed to organize ingredients"))))]
          ELSE IF Truthy(GetProp(r.data, W("error")))
          THEN pgView' = [pgView EXCEPT !.loading = FALSE,
                   !.error = <<"Organization error: ">> \o String(GetProp(r.data, W("error")))]
          ELSE pgView' = [pgView EXCEPT !.loading = FALSE,
                   !.organizedIngredients = GetProp(r.data, W("organizedIngredients"))]
    /\ pgPc' = "done"
    /\ UNCHANGED <<pgName, pgFetches, pgRecipe, pgChecked>>
    /\ UNCHANGED <<variant, orchVars, normVars, cleanVars, parked>>

NextPage ==
    \/ SetRecipeName
    \/ Submit
    \/ RecipeSettles
    \/ OrganizeSettles

SpecPage == InitPage /\ [][NextPage]_vars

---------------------------------------------------------------------------
(* The page with one fetch: page.tsx lines 424-1111 *)

\* the response of a route as the fetch of the page sees it
ReplyOf(res) == Reply(res.status = 200, res.body.o)

\* what route.ts, the earlier or the current, can answer a request that
\* carries a recipe name
RouteResponses(vr, name) ==
    {ServerError}
      \cup UNION { IF CleanedAttemptIn(vr, out).ok
                   THEN {FastResponse(CleanedAttemptIn(vr, out).val, n) : n \in 1..3}
                          \cup {CleanupResponse(CleanedAttemptIn(vr, out).val)}
                   ELSE {} : out \in Outcomes }
      \cup { IF ReliableAttemptIn(vr, t).ok
             THEN ReliableResponse(ReliableAttemptIn(vr, t).val)
             ELSE FallbackResponse(fallbackIn(vr, JStr(name)), t, parseErrorMessageOf(t)) :
             t \in TrimmedTexts }

\* the names a submit can send
SubmittedNames == {name \in PageNames : trim(name) # <<>>}

\* the replies to the fetch of /api/shopping-list: a rejected fetch, a body
\* that is no JSON, the responses of the route, and a reply with an error
\* field under an ok status, which the page provides for
ShoppingListReplies ==
    [name \in SubmittedNames |->
        {FetchRejected, NotJson,
         Reply(TRUE, <<Entry(W("error"), JStr(W("Failed to parse shopping list")))>>),
         Reply(FALSE, <<>>)}
          \cup {ReplyOf(res) : res \in RouteResponses(1, name) \cup RouteResponses(2, name)}]

\* Object.values of an object or an array
ObjectValues(v) == [i \in 1..Len(ObjectKeys(v)) |-> GetProp(v, ObjectKeys(v)[i])]

\* a value the spread of push(...aisleItems) can iterate
Iterable(v) == v.k \in {"arr", "str"}

\* the elements the spread yields; a string yields its characters
SpreadOf(v) ==
    IF v.k = "arr" THEN v.a ELSE [i \in 1..Len(v.s) |-> JStr(<<v.s[i]>>)]

RECURSIVE FlatIngredients(_, _)
\* the forEach of lines 527-529 from the i-th value on
FlatIngredients(values, i) ==
    IF i > Len(values) THEN <<>>
    ELSE SpreadOf(values[i]) \o FlatIngredients(values, i + 1)

\* the template literal of toggleItem, with the index counted from zero
itemKey(aisle, index) == aisle \o <<"-">> \o Digits(index)

\* the list is on the page: the section of line 819
ListShown == Len(ObjectKeys(pgView.organizedIngredients)) > 0

\* the render of the aisle grid calls filter and map of every value and
\* reads the fields of every item: it throws unless the values are
\* sequences without null
Renders ==
    \A i \in 1..Len(ObjectKeys(pgView.organizedIngredients)) :
        LET items == ObjectValues(pgView.organizedIngredients)[i]
        IN /\ IsArray(items)
           /\ \A j \in 1..Len(items.a) : items.a[j].k \notin {"null", "undef"}

\* the sum of items.length over the values of the list
RECURSIVE TotalItems(_, _)
TotalItems(values, i) ==
    IF i > Len(values) THEN 0
    ELSE (IF values[i].k = "arr" THEN Len(values[i].a) ELSE Len(values[i].s))
         + TotalItems(values, i + 1)

\* Math.round(checkedCount / totalItems * 100), or 0 for an empty list
totalProgress ==
    LET totalItems == TotalItems(ObjectValues(pgView.organizedIngredients), 1)
        checkedCount == Cardinality(pgChecked)
    IN IF totalItems > 0
       THEN (200 * checkedCount + totalItems) \div (2 * totalItems)
       ELSE 0

InitPageSingle ==
    /\ variant = 2
    /\ Idle
    /\ NormIdle
    /\ CleanIdle
    /\ parked = NoRequest
    /\ PageIdle

\* onChange of the input, which is disabled while loading
setRecipeName ==
    /\ pgPc \in {"idle", "done"}
    /\ Renders
    /\ \E name \in PageNames : pgName' = name
    /\ UNCHANGED <<pgPc, pgFetches, pgRecipe, pgView, pgChecked>>
    /\ UNCHANGED <<variant, orchVars, normVars, cleanVars, parked>>

\* handleSubmit without setCheckedItems(new Set())
handleSubmitKeepingChecked ==
    /\ pgPc \in {"idle", "done"}
    /\ Renders
    /\ trim(pgName) # <<>>
    /\ pgView' = PageView(TRUE, <<>>, JArr(<<>>), JObj(<<>>))
    /\ pgFetches' = <<Fetch("/api/shopping-list",
                            JSONBody(<<Entry(W("recipeName"), JStr(pgName))>>))>>
    /\ pgPc' = "shopping-list"
    /\ UNCHANGED <<pgName, pgRecipe, pgChecked>>
    /\ UNCHANGED <<variant, orchVars, normVars, cleanVars, parked>>

\* handleSubmit without setError('')
handleSubmitKeepingError ==
    /\ pgPc \in {"idle", "done"}
    /\ Renders
    /\ trim(pgName) # <<>>
    /\ pgView' = PageView(TRUE, pgView.error, JArr(<<>>), JObj(<<>>))
    /\ pgChecked' = {}
    /\ pgFetches' = <<Fetch("/api/shopping-list",
                            JSONBody(<<Entry(W("recipeName"), JStr(pgName))>>))>>
    /\ pgPc' = "shopping-list"
    /\ UNCHANGED <<pgName, pgRecipe>>
    /\ UNCHANGED <<variant, orchVars, normVars, cleanVars, parked>>

\* handleSubmit up to the fetch; the button is disabled while loading and
\* for a blank name
handleSubmit ==
    /\ pgPc \in {"idle", "done"}
    /\ Renders
    /\ trim(pgName) # <<>>
    /\ pgView' = PageView(TRUE, <<>>, JArr(<<>>), JObj(<<>>))
    /\ pgChecked' = {}
    /\ pgFetches' = <<Fetch("/api/shopping-list",
                            JSONBody(<<Entry(W("recipeName"), JStr(pgName))>>))>>
    /\ pgPc' = "shopping-list"
    /\ UNCHANGED <<pgName, pgRecipe>>
    /\ UNCHANGED <<variant, orchVars, normVars, cleanVars, parked>>

\* what the states of the page are after the try, catch and finally of
\* handleSubmit, from the states before and the reply; loading is set by last
Settled(view, r, last) ==
    IF r.st # "json"
    THEN [view EXCEPT !.loading = last, !.error = RejectionMessage(r)]
    ELSE IF ~r.ok
    THEN [view EXCEPT !.loading = last,
             !.error = String(Or(GetProp(r.data, W("error")),
                                 JStr(W("Failed to generate shopping list"))))]
    ELSE IF Truthy(GetProp(r.data, W("error")))
    THEN [view EXCEPT !.loading = last,
             !.error = <<"Shopping list generation error: ">>
                          \o String(GetProp(r.data, W("error")))]
    ELSE LET organized == GetProp(r.data, W("organizedIngredients"))
         IN IF organized.k \in {"undef", "null"}
            THEN [view EXCEPT !.loading = last, !.organizedIngredients = organized,
                     !.error = W("Cannot convert undefined or null to object")]
            ELSE IF \E i \in 1..Len(ObjectValues(organized)) :
                        ~Iterable(ObjectValues(organized)[i])
            THEN [view EXCEPT !.loading = last, !.organizedIngredients = organized,
                     !.error = W("aisleItems is not iterable")]
            ELSE [view EXCEPT !.loading = last, !.organizedIngredients = organized,
                     !.ingredients = JArr(FlatIngredients(ObjectValues(organized), 1))]

\* handleSubmit without its finally: loading is reset on the way through
\* the try only
ShoppingListSettlesNoFinally ==
    /\ pgPc = "shopping-list"
    /\ \E r \in ShoppingListReplies[pgName] :
          pgView' = Settled(pgView, r,
                            ~(r.st = "json" /\ r.ok /\ ~Truthy(GetProp(r.data, W("error")))))
    /\ pgPc' = "done"
    /\ UNCHANGED <<pgName, pgFetches, pgRecipe, pgChecked>>
    /\ UNCHANGED <<variant, orchVars, normVars, cleanVars, parked>>

\* the fetch settles; handleSubmit runs to its end
ShoppingListSettles ==
    /\ pgPc = "shopping-list"
    /\ \E r \in ShoppingListReplies[pgName] :
          pgView' = Settled(pgView, r, FALSE)
    /\ pgPc' = "done"
    /\ UNCHANGED <<pgName, pgFetches, pgRecipe, pgChecked>>
    /\ UNCHANGED <<variant, orchVars, normVars, cleanVars, parked>>

\* onChange of the checkbox of an item that is on the page
toggleItem ==
    /\ pgPc \in {"idle", "done"}
    /\ ListShown /\ Renders
    /\ \E i \in 1..Len(ObjectKeys(pgView.organizedIngredients)) :
          \E index \in 0..(Len(ObjectValues(pgView.organizedIngredients)[i].a) - 1) :
              LET key == itemKey(ObjectKeys(pgView.organizedIngredients)[i], index)
              IN pgChecked' = IF key \in pgChecked THEN pgChecked \ {key}
                              ELSE pgChecked \cup {key}
    /\ UNCHANGED <<pgPc, pgName, pgFetches, pgRecipe, pgView>>
    /\ UNCHANGED <<variant, orchVars, normVars, cleanVars, parked>>

NextPageSingle ==
    \/ setRecipeName
    \/ handleSubmit
    \/ ShoppingListSettles
    \/ toggleItem

SpecPageSingle == InitPageSingle /\ [][NextPageSingle]_vars

\* the page with a fetch that settles
SpecPageSingleFair == SpecPageSingle /\ WF_vars(ShoppingListSettles)

---------------------------------------------------------------------------
(* The cleaner and parser on their own *)

\* the characters the cleaning steps look for
CleanSymbols == {"{", "}", "[", "]", ",", "'", "\n"}

\* the array-root text on one line or several
ArrayRootText(open, close) ==
    <<"[">> \o open \o Q("Produce") \o <<":", " ", "[", "{">>
      \o Q("ingredient") \o <<":">> \o Q("eggs") \o <<",">>
      \o Q("quantity") \o <<":">> \o Q("2") \o <<"}", "]">> \o close \o <<"]">>

Pads == {<<>>, <<" ">>, <<"\n">>, <<"\n", " ", " ">>}

ArrayRootTexts == {ArrayRootText(open, close) : open \in Pads, close \in Pads}

\* a reply with prose before the object and on the line after it
TextProse == <<"Sure", " ">> \o TextObject \o <<"\n", "Enjoy">>

CleanInputs == SeqsUpTo(CleanSymbols, MaxText) \cup Texts \cup ArrayRootTexts \cup {TextProse}

InitClean ==
    /\ variant = 2
    /\ Idle
    /\ NormIdle
    /\ Alone
    /\ tIn \in CleanInputs
    /\ tClean = <<>> /\ tParsed = Fail /\ tAgain = <<>>
    /\ tPc = "start"

\* one call of tryParseWithCleaning
TryParse ==
    /\ tPc = "start"
    /\ tClean' = Clean(tIn)
    /\ tParsed' = tryParseWithCleaning(tIn)
    /\ tPc' = "parsed"
    /\ UNCHANGED <<variant, tIn, tAgain>>
    /\ UNCHANGED <<orchVars, normVars, parked, pageVars>>

\* the cleaning steps applied to their own output
CleanAgain ==
    /\ tPc = "parsed"
    /\ tAgain' = Clean(tClean)
    /\ tPc' = "again"
    /\ UNCHANGED <<variant, tIn, tClean, tParsed>>
    /\ UNCHANGED <<orchVars, normVars, parked, pageVars>>

NextClean == TryParse \/ CleanAgain

SpecClean == InitClean /\ [][NextClean]_vars

KeySet(v) == {ObjectKeys(v)[i] : i \in 1..Len(ObjectKeys(v))}

\* the entries under one key of a list, when that is a sequence
Aisle(list, key) == GetProp(list, key).a

---------------------------------------------------------------------------
(* The single-call endpoints: recipe/route.ts, organize/route.ts and the
   earlier shopping-list route *)

\* 3: /api/recipe, 4: /api/organize, 5: the earlier /api/shopping-list
SingleRoutes == {3, 4, 5}

OrganizeBodies ==
    { JUndef, JNull, JObj(<<>>),
      JObj(<<Entry(W("ingredients"), JNull)>>),
      JObj(<<Entry(W("ingredients"), JStr(W("milk")))>>),
      JObj(<<Entry(W("ingredients"), JObj(<<Entry(W("0"), Milk)>>))>>),
      JObj(<<Entry(W("ingredients"), JArr(<<>>))>>),
      JObj(<<Entry(W("ingredients"), JArr(<<Flour, Milk>>))>>),
      JObj(<<Entry(W("ingredients"), JArr(<<JNull>>))>>) }

SingleBodies(vr) == IF vr = 4 THEN OrganizeBodies ELSE Bodies

\* the field the route destructures from the body
SingleField(vr) == IF vr = 4 THEN W("ingredients") ELSE W("recipeName")

\* the test in front of the 400
SingleRejects(vr, v) ==
    IF vr = 4 THEN ~Truthy(v) \/ ~IsArray(v) ELSE ~Truthy(v)

SingleRequired(vr) ==
    NextResponseJson(
      <<Entry(W("error"), JStr(W(IF vr = 4 THEN "Ingredients array is required"
                                 ELSE "Recipe name is required")))>>, 400)

\* the prompt of /api/organize reads item.quantity and item.ingredient of
\* every item: a TypeError for an item that is null
PromptThrows(vr, v) ==
    vr = 4 /\ \E i \in 1..Len(v.a) : v.a[i].k \in {"null", "undef"}

\* the one cohere.chat of the route
SingleCall(vr, v) ==
    CASE vr = 3 -> ChatCall("command", Prompt("recipePrompt", v), 500, 3, "none")
      [] vr = 4 -> ChatCall("command", Prompt("organizePrompt", v), 800, 3, "none")
      [] OTHER -> ChatCall("command-light", Prompt("shoppingListPrompt", v), 500, 1, "none")

\* the return of the outer catch
SingleFailure(vr) ==
    NextResponseJson(
      <<Entry(W("error"),
              JStr(W(CASE vr = 3 -> "Failed to generate recipe"
                       [] vr = 4 -> "Failed to organize ingredients"
                       [] OTHER -> "Failed to generate shopping list")))>>, 500)

\* the return of the inner catch
SingleParseFailure(vr, generatedText, message) ==
    NextResponseJson(
      <<Entry(W("error"),
              JStr(W(CASE vr = 3 -> "Failed to parse ingredients"
                       [] vr = 4 -> "Failed to parse organized ingredients"
                       [] OTHER -> "Failed to parse shopping list"))),
        Entry(W("rawResponse"), JStr(generatedText))>>
      \o (IF vr = 5 THEN <<Entry(W("parseError"), JStr(message))>> ELSE <<>>), 500)

SingleSuccess(vr, parsed) ==
    NextResponseJson(
      <<Entry(W(IF vr = 3 THEN "ingredients" ELSE "organizedIngredients"), parsed)>>, 200)

RECURSIVE RemoveJsonFencesCased(_, _)
\* .replace(/(fence)json\s*/g, '') of the earlier route: lower case only
RemoveJsonFencesCased(s, i) ==
    IF i > Len(s) THEN <<>>
    ELSE IF IsFenceAt(s, i) /\ i + 3 <= Len(s) /\ s[i + 3] = "json"
    THEN RemoveJsonFencesCased(s, SkipWs(s, i + 4))
    ELSE <<s[i]>> \o RemoveJsonFencesCased(s, i + 1)

\* .replace(/^[^{]*/, '')
DropToBrace(s) ==
    IF Positions(s, "{") = {} THEN <<>>
    ELSE Slice(s, Min(Positions(s, "{")), Len(s))

\* .replace(/[^}]*$/, '')
DropFromBrace(s) ==
    IF Positions(s, "}") = {} THEN <<>>
    ELSE Slice(s, 1, Max(Positions(s, "}")))

\* generatedText as the route hands it to JSON.parse
SingleText(vr, text) ==
    IF vr = 5
    THEN DropFromBrace(DropToBrace(RemoveFences(RemoveJsonFencesCased(trim(text), 1), 1)))
    ELSE trim(text)

\* what the route returns once its call has settled
SingleOutcome(vr, result) ==
    IF result.st # "text" THEN SingleFailure(vr)
    ELSE LET generatedText == SingleText(vr, result.text)
             parsed == JSONparse(generatedText)
         IN IF ~parsed.ok
            THEN SingleParseFailure(vr, generatedText, W("Unexpected token"))
            ELSE IF vr = 5 /\ (~TypeofObject(parsed.val) \/ parsed.val.k = "null")
            THEN SingleParseFailure(vr, generatedText, W("Response is not a valid object"))
            ELSE SingleSuccess(vr, parsed.val)

InitSingle ==
    /\ variant \in SingleRoutes
    /\ pc = "request"
    /\ body \in SingleBodies(variant)
    /\ recipeName = JUndef
    /\ attempt = 0
    /\ calls = <<>>
    /\ response = JUndef
    /\ NormIdle
    /\ CleanIdle
    /\ Alone

\* request.json() settles; the handler runs up to its cohere.chat.
\* recipeName holds the destructured field: ingredients in /api/organize
ReceiveSingle ==
    /\ pc = "request"
    /\ IF body.k \in {"undef", "null"}
       THEN /\ response' = SingleFailure(variant)
            /\ pc' = "done"
            /\ UNCHANGED <<recipeName, calls>>
       ELSE /\ recipeName' = GetProp(body, SingleField(variant))
            /\ IF SingleRejects(variant, recipeName')
               THEN /\ response' = SingleRequired(variant)
                    /\ pc' = "done"
                    /\ UNCHANGED calls
               ELSE IF PromptThrows(variant, recipeName')
               THEN /\ response' = SingleFailure(variant)
                    /\ pc' = "done"
                    /\ UNCHANGED calls
               ELSE /\ calls' = <<SingleCall(variant, recipeName')>>
                    /\ pc' = "chat"
                    /\ UNCHANGED response
    /\ UNCHANGED <<variant, body, attempt>>
    /\ UNCHANGED <<normVars, cleanVars, parked, pageVars>>

\* the Model Client answers the call
CohereChatSingle ==
    /\ pc = "chat"
    /\ LastResult = Pending
    /\ \E out \in Outcomes :
          calls' = [calls EXCEPT ![Len(calls)].result = out]
    /\ UNCHANGED <<variant, pc, body, recipeName, attempt, response>>
    /\ UNCHANGED <<normVars, cleanVars, parked, pageVars>>

\* the handler resumes with the reply and returns
ResumeSingle ==
    /\ pc = "chat"
    /\ LastResult # Pending
    /\ response' = SingleOutcome(variant, LastResult)
    /\ pc' = "done"
    /\ UNCHANGED <<variant, body, recipeName, attempt, calls>>
    /\ UNCHANGED <<normVars, cleanVars, parked, pageVars>>

NextSingle ==
    \/ ReceiveSingle
    \/ CohereChatSingle
    \/ ResumeSingle

SpecSingle == InitSingle /\ [][NextSingle]_vars

---------------------------------------------------------------------------
(* Properties of the orchestrator *)

Done == pc = "done"

Field(name) == GetProp(response.body, W(name))

Succeeded == Done /\ response.status = 200

ModelUsed(w) == Field("modelUsed") = JStr(w)

AttemptTag(n) == <<"command-light (attempt ">> \o Digits(n) \o <<")">>

FromStage1 == \E n \in 1..3 : ModelUsed(AttemptTag(n))

\* the reply of call i, once it is there, fails the cleaned pipeline of Stages 1 and 2
FailedCleaned(i) ==
    /\ calls[i].result # Pending
    /\ \/ calls[i].result.st = "rejected"
       \/ LET p == tryParseWithCleaning(trim(calls[i].result.text))
          IN \/ ~p.ok
             \/ p.val.k \notin {"obj", "arr"}
             \/ ~hasValidItems(normalizeShoppingList(p.val))

\* a text no JSON.parse accepts, as it is or cleaned
Unparsable(result) ==
    /\ result.st = "text"
    /\ ~JSONparse(trim(result.text)).ok
    /\ ~tryParseWithCleaning(trim(result.text)).ok

\* C1: a request with a non-empty recipeName never ends in an error
\* response, whatever the Model Client calls return or however they fail
C1_NeverFails ==
    (Done /\ Truthy(recipeName)) =>
        response.status = 200 /\ Field("organizedIngredients").k = "obj"

\* the list the static fallback builds from a recipe name
StaticFallback(name) ==
    JObj(<<
      Entry(W("Pantry/Dry Goods"), JArr(<<
          Item(JStr(W("basic ingredients")), JStr(W("as needed"))),
          Item(JStr(<<"Check recipe for ", "\"">> \o name \o <<"\"">>),
               JStr(W("as needed")))>>)),
      Entry(W("Produce"), JArr(<<
          Item(JStr(W("fresh ingredients")), JStr(W("as needed")))>>)),
      Entry(W("Dairy"), JArr(<<>>)),
      Entry(W("Meat & Seafood"), JArr(<<>>)),
      Entry(W("Frozen Foods"), JArr(<<>>)),
      Entry(W("Bakery"), JArr(<<>>)),
      Entry(W("Canned Goods"), JArr(<<>>)),
      Entry(W("Condiments & Sauces"), JArr(<<>>)),
      Entry(W("Spices & Seasonings"), JArr(<<>>)),
      Entry(W("Beverages"), JArr(<<>>))>>)

AllUnparsable ==
    /\ Len(calls) > 0
    /\ \A i \in 1..Len(calls) : Unparsable(calls[i].result)

\* C2: when every Model Client call returns text that does not parse as
\* JSON, raw or cleaned, the request returns with a success status the static
\* fallback list built from the recipe name, with a warning and with
\* modelUsed naming the fallback
C2_GarbageGivesFallback ==
    (Done /\ AllUnparsable) =>
        /\ response.status = 200
        /\ Field("organizedIngredients") = StaticFallback(recipeName.s)
        /\ Truthy(Field("warning"))
        /\ ModelUsed(W("fallback"))

C2_Witness ==
    /\ Done /\ AllUnparsable /\ Len(calls) = 5
    /\ ModelUsed(W("fallback"))
    /\ recipeName = JStr(W("Omelette"))

\* the model and the prompt template of the i-th stage of the escalation
StageModel(i) == IF i <= 4 THEN "command-light" ELSE "command-r-plus"
StageTemplate(i) == IF i = 4 THEN "cleanupPrompt" ELSE "prompt"

\* C3: the calls are, in order, Stage 1 attempts 1, 2, 3, Stage 2, Stage 3,
\* each made only after every earlier one has failed, none skipped or
\* repeated; the static fallback is returned only after all five
C3_StageOrder ==
    /\ Len(calls) <= 5
    /\ \A i \in 1..Len(calls) :
          /\ calls[i].model = StageModel(i)
          /\ calls[i].message.template = StageTemplate(i)
          /\ \A j \in 1..(i - 1) : FailedCleaned(j)
    /\ (Done /\ \E n \in 1..3 : ModelUsed(AttemptTag(n))) =>
          /\ ModelUsed(AttemptTag(Len(calls)))
          /\ ~FailedCleaned(Len(calls))
    /\ (Done /\ ModelUsed(W("command-light (cleanup)"))) =>
          Len(calls) = 4 /\ ~FailedCleaned(4)
    /\ (Done /\ (ModelUsed(W("command-r-plus")) \/ ModelUsed(W("fallback")))) =>
          Len(calls) = 5 /\ FailedCleaned(4)
    /\ (Done /\ ModelUsed(W("fallback"))) =>
          LET p == JSONparse(trim(calls[5].result.text))
          IN calls[5].result.st = "text" /\ (~p.ok \/ p.val.k \notin {"obj", "arr"})

C3_Witness ==
    /\ Done /\ Len(calls) = 5 /\ ModelUsed(W("fallback"))
    /\ calls[1].result = Rejected
    /\ calls[2].result = Text(TextEmptyObject)
    /\ calls[4].result = Text(TextNull)

\* C4: the first Stage 1 attempt k with valid items ends the request at
\* once: k calls have been made, none follows, and modelUsed records k
C4_FirstSuccessEnds ==
    \A k \in 1..3 :
        (Len(calls) >= k /\ calls[k].result # Pending /\ ~FailedCleaned(k)) =>
            /\ Len(calls) = k
            /\ pc \in {"fast", "done"}
            /\ Done => /\ response.status = 200
                       /\ ModelUsed(AttemptTag(k))
                       /\ Field("totalAttempts") = JNum(k)

C4_Witness ==
    /\ Done /\ Len(calls) = 2 /\ ModelUsed(AttemptTag(2))
    /\ calls[1].result = Text(TextGarbage)
    /\ calls[2].result = Text(TextArrayRoot)

\* C5: no request returns a list in which every aisle is empty
C5_NoEmptyList ==
    Succeeded => hasValidItems(Field("organizedIngredients"))

\* C6: every result that Stage 1 did not produce carries a warning
C6_WarningUnlessStage1 ==
    (Succeeded /\ ~FromStage1) => Truthy(Field("warning"))

Stage3Object ==
    /\ Len(calls) = 5
    /\ calls[5].result.st = "text"
    /\ JSONparse(trim(calls[5].result.text)).ok
    /\ JSONparse(trim(calls[5].result.text)).val.k \in {"obj", "arr"}

---------------------------------------------------------------------------
(* Properties of the normalizer *)

NormDone == nPc = "done"

\* C8: the keys of the output are the ten canonical aisles and the input
\* keys that have no entry in the synonym table
C8_KeySet ==
    NormDone =>
        KeySet(nOut) = CanonicalSet
                         \cup {key \in KeySet(nIn) : ~InTable(toLowerCase(key))}

\* every key maps to a sequence of entries with an ingredient and a quantity
WellFormedList(list) ==
    /\ list.k = "obj"
    /\ CanonicalSet \subseteq KeySet(list)
    /\ \A key \in KeySet(list) :
          /\ IsArray(GetProp(list, key))
          /\ \A i \in 1..Len(Aisle(list, key)) :
                /\ Aisle(list, key)[i].k = "obj"
                /\ HasOwn(Aisle(list, key)[i], W("ingredient"))
                /\ HasOwn(Aisle(list, key)[i], W("quantity"))

\* C9: every list returned with a success status has all ten canonical
\* aisles and maps every key to a sequence of {ingredient, quantity}
C9_WellFormed ==
    Succeeded => WellFormedList(Field("organizedIngredients"))

\* C10: no entry of a normalizer output has the ingredient "Unknown item"
C10_NoUnknownItem ==
    NormDone =>
        \A key \in KeySet(nOut) :
            \A i \in 1..Len(Aisle(nOut, key)) :
                GetProp(Aisle(nOut, key)[i], W("ingredient")) # JStr(UnknownItem)

C10_Witness ==
    /\ NormDone
    /\ nIn = JObj(<<Entry(W("produce"),
                          JArr(<<JStr(UnknownItem), JStr(W("eggs"))>>))>>)
    /\ Aisle(nOut, W("Produce")) = <<Item(JStr(W("eggs")), JStr(W("1")))>>

\* the entries of a list, aisle by aisle
Entries(list) ==
    UNION {{Aisle(list, key)[i] : i \in 1..Len(Aisle(list, key))} : key \in KeySet(list)}

\* C11: every entry of a normalizer output has a non-empty ingredient
\* without leading or trailing whitespace and a non-empty quantity
C11_TrimmedNonEmpty ==
    NormDone =>
        \A e \in Entries(nOut) :
            /\ GetProp(e, W("ingredient")).s # <<>>
            /\ trim(GetProp(e, W("ingredient")).s) = GetProp(e, W("ingredient")).s
            /\ GetProp(e, W("quantity")).s # <<>>

\* a synonym, or a case variant of a table key, and its canonical aisle
FoldPairs ==
    { <<W("meat_and_seafood"), W("Meat & Seafood")>>,
      <<W("Meat_And_Seafood"), W("Meat & Seafood")>>,
      <<W("produce"), W("Produce")>>,
      <<W("PRODUCE"), W("Produce")>> }

SingleKey(v, key) == v.k = "obj" /\ Len(v.o) = 1 /\ v.o[1].key = key

\* C12: an object whose only key is a synonym of an aisle normalizes to
\* the same list as the object with the canonical name and the same value
C12_SynonymFolding ==
    NormDone =>
        \A p \in FoldPairs :
            SingleKey(nIn, p[1]) =>
                nOut = normalizeShoppingList(JObj(<<Entry(p[2], nIn.o[1].val)>>))

C12_Witness ==
    /\ NormDone
    /\ nIn = JObj(<<Entry(W("meat_and_seafood"), JArr(<<Flour, JStr(W("eggs"))>>))>>)
    /\ Aisle(nOut, W("Meat & Seafood")) = <<Flour, Item(JStr(W("eggs")), JStr(W("1")))>>
    /\ KeySet(nOut) = CanonicalSet

RECURSIVE OneLevel(_)
\* a sequence with each element that is a sequence replaced by its elements
OneLevel(a) ==
    IF a = <<>> THEN <<>>
    ELSE (IF Head(a).k = "arr" THEN Head(a).a ELSE <<Head(a)>>) \o OneLevel(Tail(a))

\* what item normalization keeps of a flat sequence
Kept(a) == SelectSeq([i \in 1..Len(a) |-> normalizeItem(a[i])], keepItem)

OthersEmpty(list, key) ==
    \A c \in CanonicalSet \ {key} : Aisle(list, c) = <<>>

\* C13: a sequence whose first element is a sequence is flattened by one
\* level before item normalization; otherwise nothing is flattened
C13_FlattenOnce ==
    (NormDone /\ SingleKey(nIn, W("Produce")) /\ IsArray(nIn.o[1].val)
        /\ nIn.o[1].val.a # <<>>) =>
            LET a == nIn.o[1].val.a
            IN /\ Aisle(nOut, W("Produce")) =
                    IF a[1].k = "arr" THEN Kept(OneLevel(a)) ELSE Kept(a)
               /\ OthersEmpty(nOut, W("Produce"))

C13_Witness ==
    /\ NormDone
    /\ nIn = JObj(<<Entry(W("Produce"), JArr(<<JArr(<<Flour>>)>>))>>)
    /\ Aisle(nOut, W("Produce")) = <<Flour>>
    /\ OthersEmpty(nOut, W("Produce"))

\* a mapping from aisle names to sequences of {ingredient, quantity} strings
IsShoppingList(list) ==
    /\ list.k = "obj"
    /\ \A key \in KeySet(list) :
          /\ IsArray(GetProp(list, key))
          /\ \A i \in 1..Len(Aisle(list, key)) :
                LET e == Aisle(list, key)[i]
                IN /\ e.k = "obj"
                   /\ KeySet(e) = {W("ingredient"), W("quantity")}
                   /\ GetProp(e, W("ingredient")).k = "str"
                   /\ GetProp(e, W("quantity")).k = "str"

C14_Idempotent ==
    tPc = "again" => tAgain = tClean

\* C15: an array-root text parses to an object with the key it names
C15_ArrayRoot ==
    (tPc = "parsed" /\ tIn \in ArrayRootTexts) =>
        /\ tParsed.ok
        /\ tParsed.val.k = "obj"
        /\ W("Produce") \in KeySet(tParsed.val)

\* the Pancakes request whose first attempt is answered by the fenced object
PancakesCase ==
    /\ Done
    /\ recipeName = JStr(W("Pancakes"))
    /\ calls[1].result = Text(TextFenced)

FlourEntry == Item(JStr(W("flour")), JStr(W("2 cups")))
MilkEntry == Item(JStr(W("milk")), JStr(W("1 cup")))

\* C16 as stated: the Pancakes result holds the flour entry under
\* Pantry/Dry Goods, every other canonical aisle is empty, and modelUsed
\* names attempt 1
C16_PancakesOnlyPantry ==
    PancakesCase =>
        /\ Succeeded
        /\ Aisle(Field("organizedIngredients"), W("Pantry/Dry Goods")) = <<FlourEntry>>
        /\ OthersEmpty(Field("organizedIngredients"), W("Pantry/Dry Goods"))
        /\ ModelUsed(AttemptTag(1))

\* C16: the Pancakes result holds the flour entry under Pantry/Dry Goods and
\* the milk entry under Dairy, the other eight canonical aisles are empty,
\* and modelUsed names attempt 1
C16_Pancakes ==
    PancakesCase =>
        /\ Succeeded
        /\ Len(calls) = 1
        /\ KeySet(Field("organizedIngredients")) = CanonicalSet
        /\ Aisle(Field("organizedIngredients"), W("Pantry/Dry Goods")) = <<FlourEntry>>
        /\ Aisle(Field("organizedIngredients"), W("Dairy")) = <<MilkEntry>>
        /\ \A c \in CanonicalSet \ {W("Pantry/Dry Goods"), W("Dairy")} :
              Aisle(Field("organizedIngredients"), c) = <<>>
        /\ ModelUsed(AttemptTag(1))

C16_Witness ==
    /\ PancakesCase
    /\ Aisle(Field("organizedIngredients"), W("Dairy")) = <<MilkEntry>>
    /\ Field("totalAttempts") = JNum(1)

\* the recipeName a request carries, if it carries one
NameOf(b) == IF b.k \in {"undef", "null"} THEN JUndef ELSE GetProp(b, W("recipeName"))

\* C17: a request without a recipe name, or with an empty one, is answered
\* with status 400 and no call to the model is made for it
C17_NameRequired ==
    (Done /\ ~Truthy(NameOf(body))) =>
        response.status = 400 /\ calls = <<>>

\* the call, if any, that follows the i-th of a request
NextCallAfter(i) ==
    IF i < 3 THEN FastCall(i + 1, recipeName)
    ELSE IF i = 3 THEN CleanupCall(recipeName)
    ELSE ReliableCall(recipeName)

SameCall(c, d) == [c EXCEPT !.result = Pending] = d

\* C18: after a rejected call of Stage 1 or Stage 2 the handler does not
\* return: it issues the call of the next attempt or stage
C18_RejectionRecovered ==
    \A i \in 1..Len(calls) :
        (i <= 4 /\ calls[i].result = Rejected) =>
            \/ Len(calls) = i /\ ~Done
            \/ Len(calls) > i /\ SameCall(calls[i + 1], NextCallAfter(i))

C18_Witness ==
    /\ Done
    /\ Len(calls) = 5
    /\ \A i \in 1..4 : calls[i].result = Rejected
    /\ Succeeded
    /\ ModelUsed(W("command-r-plus"))

CallsTo(model) == {i \in 1..Len(calls) : calls[i].model = model}

\* C19: only the last call can be in flight; a request makes at most five
\* calls, at most four to the low-cost model (three with the generation
\* prompt, one with the cleanup prompt) and at most one to the reliable
\* model, which asks for structured output
C19_Sequential ==
    /\ \A i \in 1..(Len(calls) - 1) : calls[i].result # Pending
    /\ Len(calls) <= 5
    /\ CallsTo("command-light") \cup CallsTo("command-r-plus") = 1..Len(calls)
    /\ Cardinality(CallsTo("command-light")) <= 4
    /\ Cardinality({i \in CallsTo("command-light") :
                       calls[i].message.template = "prompt"}) <= 3
    /\ Cardinality({i \in CallsTo("command-light") :
                       calls[i].message.template = "cleanupPrompt"}) <= 1
    /\ Cardinality(CallsTo("command-r-plus")) <= 1
    /\ \A i \in CallsTo("command-r-plus") : calls[i].responseFormat = "json_object"
    /\ \A i \in CallsTo("command-light") : calls[i].responseFormat = "none"

C19_Witness ==
    /\ Len(calls) = 5
    /\ calls[5].result = Pending
    /\ \A i \in 1..4 : calls[i].result # Pending

\* the list of the ten canonical aisles, each empty
EmptyCanonicalList(list) ==
    /\ list.k = "obj"
    /\ KeySet(list) = CanonicalSet
    /\ \A c \in CanonicalSet : Aisle(list, c) = <<>>

\* C21: for an input that is not a key/value mapping the normalizer returns
\* the ten canonical aisles, each with an empty sequence
C21_NonMappingGivesEmpty ==
    (NormDone /\ nIn.k # "obj") => EmptyCanonicalList(nOut)

\* the aisle an input key is filed under
CanonOf(key) == String(Or(aisleMappingGet(toLowerCase(key)), JStr(key)))

\* the entries the items under the i-th key of an object resolve to, in
\* the order of the input after one level of flattening
ResolvedOf(v, i) ==
    LET raw == v.o[i].val
        src == IF ~IsArray(raw) THEN <<>>
               ELSE IF raw.a # <<>> /\ raw.a[1].k = "arr" THEN OneLevel(raw.a)
               ELSE raw.a
    IN [j \in 1..Len(src) |-> normalizeItem(src[j])]

RECURSIVE InOrderWithin(_, _)
\* out is src with some elements left out, nothing moved
InOrderWithin(out, src) ==
    IF out = <<>> THEN TRUE
    ELSE IF src = <<>> THEN FALSE
    ELSE IF Head(out) = Head(src) THEN InOrderWithin(Tail(out), Tail(src))
    ELSE InOrderWithin(out, Tail(src))

\* the last key of an object that is filed under the aisle of its i-th key
LastFor(v, i) ==
    \A j \in (i + 1)..Len(v.o) : CanonOf(v.o[j].key) # CanonOf(v.o[i].key)

\* C22: the entries of an aisle of the output stand in the order of the
\* input sequence of its key
C22_OrderKept ==
    (NormDone /\ nIn.k = "obj") =>
        \A i \in 1..Len(nIn.o) :
            LastFor(nIn, i) =>
                InOrderWithin(Aisle(nOut, CanonOf(nIn.o[i].key)), ResolvedOf(nIn, i))

C22_Witness ==
    /\ NormDone
    /\ nIn = JObj(<<Entry(W("Produce"),
                          JArr(<<JArr(<<JStr(W("milk")), JNull>>), JStr(W("eggs"))>>))>>)
    /\ Aisle(nOut, W("Produce")) =
          <<Item(JStr(W("milk")), JStr(W("1"))), Item(JStr(W("eggs")), JStr(W("1")))>>

\* C29: every entry of every input key that does not resolve to
\* "Unknown item" is in the output under the aisle of its key
C29_OnlyUnknownRemoved ==
    (NormDone /\ nIn.k = "obj") =>
        \A i \in 1..Len(nIn.o) :
            \A j \in 1..Len(ResolvedOf(nIn, i)) :
                keepItem(ResolvedOf(nIn, i)[j]) =>
                    \E n \in 1..Len(Aisle(nOut, CanonOf(nIn.o[i].key))) :
                        Aisle(nOut, CanonOf(nIn.o[i].key))[n] = ResolvedOf(nIn, i)[j]

\* C30: a text that is a JSON object as it stands parses after cleaning to
\* the value it parses to directly
C30_ValidPreserved ==
    (tPc = "parsed" /\ JSONparse(tIn).ok /\ JSONparse(tIn).val.k = "obj") =>
        tParsed = JSONparse(tIn)

\* the modelUsed value of the i-th stage of the escalation
StageTag(i) ==
    IF i <= 3 THEN AttemptTag(i)
    ELSE IF i = 4 THEN W("command-light (cleanup)")
    ELSE W("command-r-plus")

\* C23: every successful result names the stage that produced it in
\* modelUsed, with a value of its own for each of the three attempts,
\* Stage 2, Stage 3 and the fallback, and carries a response time
C23_ModelUsedAndTime ==
    Succeeded =>
        /\ \/ ModelUsed(StageTag(Len(calls)))
           \/ Len(calls) = 5 /\ ModelUsed(W("fallback"))
        /\ Field("responseTime").k = "num"

\* C24: no returned result carries a parse-error message or the raw text
\* of an upstream reply
C24_NoIntermediateError ==
    Done => Field("parseError") = JUndef /\ Field("rawResponse") = JUndef

\* C25: the temperatures of the Stage 1 attempts lie in [0,1] (in tenths)
\* and each retry is sent at a higher temperature than the attempt before
C25_TemperatureRises ==
    \A i \in 1..Len(calls) :
        i <= 3 =>
            /\ calls[i].temperature \in 0..10
            /\ i > 1 => calls[i].temperature > calls[i - 1].temperature

\* some aisle of the list, canonical or not, holds a non-empty sequence
SomeAisleNonEmpty(list) ==
    \E key \in KeySet(list) :
        IsArray(GetProp(list, key)) /\ Len(GetProp(list, key).a) > 0

\* the text parses after cleaning to a non-null object whose normalized
\* list has a non-empty aisle
AcceptableText(t) ==
    LET p == tryParseWithCleaning(trim(t))
    IN /\ p.ok
       /\ TypeofObject(p.val) /\ p.val.k # "null"
       /\ SomeAisleNonEmpty(normalizeShoppingList(p.val))

\* the request ended with the reply of its i-th call as the result
AcceptedAt(i) ==
    /\ Len(calls) = i
    /\ Succeeded
    /\ ModelUsed(StageTag(i))
    /\ Field("organizedIngredients") =
          normalizeShoppingList(tryParseWithCleaning(trim(calls[i].result.text)).val)

\* C28: the reply of a Stage 1 attempt or of Stage 2 becomes the result
\* exactly if it is acceptable; otherwise the next stage is called
C28_AcceptedIff ==
    \A i \in 1..Len(calls) :
        (i <= 4 /\ calls[i].result.st = "text" /\ (Len(calls) > i \/ Done)) =>
            IF AcceptableText(calls[i].result.text)
            THEN AcceptedAt(i)
            ELSE Len(calls) > i /\ SameCall(calls[i + 1], NextCallAfter(i))

C28_Witness ==
    /\ Done
    /\ Len(calls) = 4
    /\ calls[1].result = Text(TextEmptyObject)
    /\ calls[2].result = Text(TextNull)
    /\ calls[3].result = Text(TextGarbage)
    /\ calls[4].result = Text(TextObject)
    /\ AcceptedAt(4)

\* the two requests: the one that runs and the one that waits
Running == Locals(pc, body, recipeName, attempt, calls, response)
Requests == {Running, parked}

RECURSIVE AloneFrom(_, _, _)
\* the response of a request that runs by itself, from the results of
\* its calls from the i-th on
AloneFrom(name, cs, i) ==
    IF i <= 4
    THEN LET r == CleanedAttempt(cs[i].result)
         IN IF r.ok
            THEN (IF i <= 3 THEN FastResponse(r.val, i) ELSE CleanupResponse(r.val))
            ELSE AloneFrom(name, cs, i + 1)
    ELSE IF cs[5].result.st # "text" THEN ServerError
    ELSE LET generatedText == trim(cs[5].result.text)
             r == ReliableAttempt(generatedText)
         IN IF r.ok THEN ReliableResponse(r.val)
            ELSE FallbackResponse(fallbackByVariant(name), generatedText,
                                  parseErrorMessage(generatedText))

AloneResponse(b, cs) ==
    IF b.k \in {"undef", "null"} THEN ServerError
    ELSE IF ~Truthy(NameOf(b))
    THEN NextResponseJson(<<Entry(W("error"), JStr(W("Recipe name is required")))>>, 400)
    ELSE AloneFrom(NameOf(b), cs, 1)

\* C26: of two requests whose steps interleave, each sends its own recipe
\* name in every call and returns what it returns when it runs by itself
\* with the results of its own calls
C26_NoSharedState ==
    \A l \in Requests :
        /\ l.recipeName \in {JUndef, NameOf(l.body)}
        /\ \A i \in 1..Len(l.calls) :
              l.calls[i].message.recipe = String(NameOf(l.body))
        /\ l.pc = "done" => l.response = AloneResponse(l.body, l.calls)

C26_Witness ==
    /\ Done
    /\ recipeName = JStr(W("Omelette"))
    /\ Len(calls) = 5
    /\ ModelUsed(W("fallback"))
    /\ parked.recipeName = JStr(W("Pancakes"))
    /\ parked.pc = "cleanup"
    /\ parked.calls[4].result = Pending

OrganizeFetches == {i \in 1..Len(pgFetches) : pgFetches[i].url = "/api/organize"}

\* /api/recipe answered with a success response that carries an ingredient list
RecipeGaveList ==
    /\ pgRecipe # JUndef
    /\ pgRecipe.st = "json" /\ pgRecipe.ok
    /\ ~Truthy(GetProp(pgRecipe.data, W("error")))
    /\ IsArray(GetProp(pgRecipe.data, W("ingredients")))

\* C27: /api/organize is fetched only as the second fetch of a submit,
\* after /api/recipe answered with a success response that carries an
\* ingredient list, and with exactly that list; a submit whose /api/recipe
\* fetch failed or reported an error never fetches /api/organize
C27_OrganizeAfterRecipe ==
    /\ \A i \in OrganizeFetches :
          /\ i = 2
          /\ pgFetches[1].url = "/api/recipe"
          /\ RecipeGaveList
          /\ pgFetches[i].body =
                JObj(<<Entry(W("ingredients"), GetProp(pgRecipe.data, W("ingredients")))>>)
    /\ (pgPc = "done" /\ ~RecipeGaveList) => OrganizeFetches = {}


---------------------------------------------------------------------------
(* Properties of Stage 3, of item coercion and of the extraction step *)

\* the reply of Stage 3 has arrived as text
Stage3Text == Len(calls) = 5 /\ calls[5].result.st = "text"

\* the reply of Stage 3 read by JSON.parse alone
Stage3Strict == JSONparse(trim(calls[5].result.text))

\* C32: the reply of Stage 3 is parsed without the cleaner: a reply that is
\* not a JSON object as returned gives the static fallback list with the
\* warning that both models failed, and a reply that is a JSON object
\* gives the normalizer's output for it
C32_StrictStage3 ==
    (Done /\ Stage3Text) =>
        IF Stage3Strict.ok /\ Stage3Strict.val.k = "obj"
        THEN /\ ModelUsed(W("command-r-plus"))
             /\ Field("organizedIngredients") = normalizeShoppingList(Stage3Strict.val)
        ELSE /\ ModelUsed(W("fallback"))
             /\ Field("organizedIngredients") = StaticFallback(recipeName.s)
             /\ Field("warning") = JStr(W("Both AI models failed. Using basic shopping list."))

\* a JSON sequence as the reply of Stage 3 is returned as a result of Stage 3
C32_ArrayAccepted ==
    /\ Done /\ Stage3Text
    /\ calls[5].result = Text(TextArray)
    /\ ModelUsed(W("command-r-plus"))
    /\ Field("organizedIngredients") # StaticFallback(recipeName.s)

\* C32 for the replies the claim names: fenced JSON, prose and primitives
C32_NamedCases ==
    (Done /\ Stage3Text /\ calls[5].result.text \in {TextFenced, TextGarbage, TextNull}) =>
        /\ ModelUsed(W("fallback"))
        /\ Field("organizedIngredients") = StaticFallback(recipeName.s)

\* C35: Stage 2 calls the model of Stage 1 with a prompt that is not the
\* prompt of any Stage 1 attempt, and a Stage 2 reply that parses and has
\* valid items ends the request with four calls made
C35_Stage2 ==
    /\ Len(calls) >= 4 =>
          /\ calls[4].model = calls[1].model
          /\ \A i \in 1..3 : calls[4].message # calls[i].message
    /\ (Len(calls) >= 4 /\ calls[4].result.st = "text"
          /\ AcceptableText(calls[4].result.text)) =>
              /\ Len(calls) = 4
              /\ Done => AcceptedAt(4)

C35_Witness ==
    /\ Done
    /\ Len(calls) = 4
    /\ calls[3].result = Rejected
    /\ calls[4].result = Text(TextFenced)
    /\ ModelUsed(W("command-light (cleanup)"))

\* the entry an item becomes when a default stands in for a missing field only
CoercedWhenAbsent(e) ==
    IF e.k = "str" THEN Item(e, JStr(W("1")))
    ELSE IF e.k = "obj"
    THEN Item(JStr(IF GetProp(e, W("ingredient")) = JUndef THEN UnknownItem
                   ELSE ToStr(GetProp(e, W("ingredient")))),
              JStr(IF GetProp(e, W("quantity")) = JUndef THEN W("1")
                   ELSE ToStr(GetProp(e, W("quantity")))))
    ELSE Item(JStr(UnknownItem), JStr(W("1")))

\* the entry an item becomes when a default stands in for a missing, empty,
\* zero, false or null field
CoercedWhenFalsy(e) ==
    IF e.k = "str" THEN Item(e, JStr(W("1")))
    ELSE IF e.k = "obj"
    THEN Item(JStr(IF ~Truthy(GetProp(e, W("ingredient"))) THEN UnknownItem
                   ELSE ToStr(GetProp(e, W("ingredient")))),
              JStr(IF ~Truthy(GetProp(e, W("quantity"))) THEN W("1")
                   ELSE ToStr(GetProp(e, W("quantity")))))
    ELSE Item(JStr(UnknownItem), JStr(W("1")))

NotUnknown(e) == GetProp(e, W("ingredient")) # JStr(UnknownItem)

\* the i-th key of an object holds a sequence that is not flattened
FlatSequenceAt(v, i) ==
    /\ IsArray(v.o[i].val)
    /\ v.o[i].val.a # <<>> => v.o[i].val.a[1].k # "arr"

\* C33 as stated: a string entry s becomes {s, "1"}, an object entry takes
\* "Unknown item" and "1" for a missing field, both fields as strings, and
\* the entries that resolve to "Unknown item" are dropped
C33_CoercionWhenAbsent ==
    (NormDone /\ nIn.k = "obj") =>
        \A i \in 1..Len(nIn.o) :
            (LastFor(nIn, i) /\ FlatSequenceAt(nIn, i)) =>
                Aisle(nOut, CanonOf(nIn.o[i].key)) =
                    SelectSeq([j \in 1..Len(nIn.o[i].val.a) |->
                                  CoercedWhenAbsent(nIn.o[i].val.a[j])], NotUnknown)

\* C33: a string entry s becomes {s, "1"}, an object entry takes "Unknown
\* item" and "1" for a field that is missing or falsy, both fields as
\* strings, and the entries that resolve to "Unknown item" are dropped
C33_Coercion ==
    (NormDone /\ nIn.k = "obj") =>
        \A i \in 1..Len(nIn.o) :
            (LastFor(nIn, i) /\ FlatSequenceAt(nIn, i)) =>
                Aisle(nOut, CanonOf(nIn.o[i].key)) =
                    SelectSeq([j \in 1..Len(nIn.o[i].val.a) |->
                                  CoercedWhenFalsy(nIn.o[i].val.a[j])], NotUnknown)

C33_Witness ==
    /\ NormDone
    /\ nIn = JObj(<<Entry(W("Produce"),
                 JArr(<<JObj(<<Entry(W("ingredient"), JNum(0)),
                               Entry(W("quantity"), JNum(12))>>),
                        JObj(<<Entry(W("ingredient"), JStr(W("salt"))),
                               Entry(W("quantity"), JArr(<<>>))>>)>>))>>)
    /\ Aisle(nOut, W("Produce")) = <<Item(JStr(W("salt")), JStr(<<>>))>>

\* C34: an input key whose value is not a sequence has its aisle mapped to
\* the empty sequence, and every value of the output is a sequence
C34_NonSequenceGivesEmpty ==
    NormDone =>
        /\ \A key \in KeySet(nOut) : IsArray(GetProp(nOut, key))
        /\ nIn.k = "obj" =>
              \A i \in 1..Len(nIn.o) :
                  (LastFor(nIn, i) /\ ~IsArray(nIn.o[i].val)) =>
                      GetProp(nOut, CanonOf(nIn.o[i].key)) = JArr(<<>>)

C34_Witness ==
    /\ NormDone
    /\ nIn = JObj(<<Entry(W("produce"), JStr(W("salt"))),
                    Entry(W("Snacks"), JStr(W("salt")))>>)
    /\ GetProp(nOut, W("Produce")) = JArr(<<>>)
    /\ GetProp(nOut, W("Snacks")) = JArr(<<>>)

\* the text has a '{' with a '}' somewhere after it
BraceThenBrace(s) ==
    \E i, j \in 1..Len(s) : i < j /\ s[i] = "{" /\ s[j] = "}"

\* the three repairs that follow the extraction
FixCommonIssues(s) ==
    CollapseCommas(FixSingleQuotes(RemoveTrailingCommas(s, 1), 1), 1)

\* C40: when the text that reaches the extraction has a '{' followed by a
\* '}', the text handed to JSON.parse is the stretch from the first '{' to
\* the last '}', repaired: it begins with '{' and ends with '}'
C40_FirstToLastBrace ==
    (tPc = "parsed" /\ BraceThenBrace(CleanUpToExtract(tIn))) =>
        LET s == CleanUpToExtract(tIn)
        IN /\ tClean = FixCommonIssues(
                           Slice(s, Min(Positions(s, "{")), Max(Positions(s, "}"))))
           /\ Head(tClean) = "{"
           /\ tClean[Len(tClean)] = "}"

C40_Witness ==
    /\ tPc = "parsed"
    /\ tIn = TextProse
    /\ tClean = TextObject
    /\ tParsed.ok


---------------------------------------------------------------------------
(* Termination of the escalation *)

\* the stage a request is in: 0 before the first call, 1 to 3 for the
\* attempts of Stage 1, 4 for Stage 2, 5 for Stage 3, 6 once it has responded
StageOf ==
    CASE pc = "request" -> 0
      [] pc = "fast" -> attempt
      [] pc = "cleanup" -> 4
      [] pc = "reliable" -> 5
      [] OTHER -> 6

\* twice the stage, plus one once the call of the stage has settled
Measure ==
    2 * StageOf + (IF pc \in {"fast", "cleanup", "reliable"} /\ LastResult # Pending
                   THEN 1 ELSE 0)

\* C31: with every Model Client call settling, every request ends in a
\* response; every step moves the request forward within its stage or to a
\* later stage, never back, so at most twelve steps are taken
C31_Terminates ==
    /\ <>Done
    /\ [][Measure' > Measure /\ Measure' <= 12]_vars

C31_Witness ==
    /\ Done
    /\ Len(calls) = 5
    /\ \A i \in 1..5 : calls[i].result = Rejected
    /\ response = ServerError


---------------------------------------------------------------------------
(* Properties of the single-call endpoints *)

\* the field of the body the route asks for, if the body has fields
Wanted == IF body.k = "obj" THEN GetProp(body, SingleField(variant)) ELSE JUndef

\* a request the route is written for: a recipe name, or a sequence of
\* ingredient objects
ValidRequest ==
    IF variant = 4
    THEN IsArray(Wanted) /\ \A i \in 1..Len(Wanted.a) : Wanted.a[i].k = "obj"
    ELSE Truthy(Wanted)

\* the route cannot parse the reply
SingleUnparsable(text) ==
    LET parsed == JSONparse(SingleText(variant, text))
    IN \/ ~parsed.ok
       \/ variant = 5 /\ parsed.val.k \notin {"obj", "arr"}

HasField(name) == Field(name) # JUndef

NoList == ~HasField("ingredients") /\ ~HasField("organizedIngredients")

\* what a finished valid request has done and returned
C39_ValidRequests ==
    (Done /\ ValidRequest) =>
        /\ Len(calls) = 1
        /\ calls[1].result # Pending
        /\ calls[1].result.st = "rejected" =>
              response.status = 500 /\ Truthy(Field("error")) /\ NoList
        /\ (calls[1].result.st = "text" /\ SingleUnparsable(calls[1].result.text)) =>
              /\ response.status = 500 /\ Truthy(Field("error")) /\ NoList
              /\ Field("rawResponse") = JStr(SingleText(variant, calls[1].result.text))
        /\ (calls[1].result.st = "text" /\ ~SingleUnparsable(calls[1].result.text)) =>
              response.status = 200 /\ ~NoList

\* C39: a route makes at most one call, exactly one for a valid request;
\* a reply that does not parse gives status 500 with the reply in
\* rawResponse, a failed call gives status 500, no list is returned in
\* either case, and /api/organize answers a request whose ingredients are
\* missing or no sequence with status 400 and without a call
C39_SingleCall ==
    /\ Len(calls) <= 1
    /\ C39_ValidRequests
    /\ (Done /\ variant = 4 /\ ~IsArray(Wanted)) =>
          response.status = 400 /\ calls = <<>>

\* /api/organize answers a body without fields with status 500
C39_NullBody ==
    /\ Done /\ variant = 4 /\ body = JNull
    /\ response.status = 500 /\ calls = <<>>

\* C39 but for the requests whose body has no fields
C39_BodiesWithFields ==
    /\ Len(calls) <= 1
    /\ C39_ValidRequests
    /\ (Done /\ variant = 4 /\ body.k = "obj" /\ ~IsArray(Wanted)) =>
          response.status = 400 /\ calls = <<>>


---------------------------------------------------------------------------
(* Properties of the page with one fetch *)

\* the keys of the items of the list on the page
ItemKeys ==
    UNION { IF IsArray(ObjectValues(pgView.organizedIngredients)[i])
            THEN { itemKey(ObjectKeys(pgView.organizedIngredients)[i], index) :
                     index \in 0..(Len(ObjectValues(pgView.organizedIngredients)[i].a) - 1) }
            ELSE {} : i \in 1..Len(ObjectKeys(pgView.organizedIngredients)) }

\* a step that is a submit: handleSubmit reaches its fetch
Submits == pgPc # "shopping-list" /\ pgPc' = "shopping-list"

\* C36: every key of checkedItems is the key of an item of the list on the
\* page, so no more items are checked than there are and the total progress
\* is between 0 and 100; every submit empties checkedItems
C36_CheckedWithinList ==
    /\ [](/\ pgChecked \subseteq ItemKeys
          /\ Cardinality(pgChecked)
                <= TotalItems(ObjectValues(pgView.organizedIngredients), 1)
          /\ totalProgress \in 0..100)
    /\ [][Submits => pgChecked' = {}]_vars

C36_Witness ==
    /\ pgPc = "done"
    /\ pgChecked = {itemKey(W("Produce"), 0)}
    /\ Aisle(pgView.organizedIngredients, W("Produce")) = <<Item(JStr(W("eggs")), JStr(W("1")))>>
    /\ totalProgress = 100

\* C37: loading is true exactly while the fetch of a submit is
\* outstanding; a submit needs a name that is not blank and sets loading;
\* while loading is set no submit is made and the name is not edited; and
\* whatever the fetch settles with, loading becomes false again
C37_LoadingWhileOutstanding ==
    /\ [](pgView.loading <=> pgPc = "shopping-list")
    /\ [](Len(pgFetches) <= 1)
    /\ [][Submits => (trim(pgName) # <<>> /\ pgView'.loading)]_vars
    /\ [][pgView.loading => (~Submits /\ pgName' = pgName /\ pgFetches' = pgFetches)]_vars
    /\ (pgView.loading ~> ~pgView.loading)

C37_Witness ==
    /\ pgPc = "done"
    /\ ~pgView.loading
    /\ pgView.error = W("Failed to fetch")
    /\ Len(pgFetches) = 1

=============================================================================
